---- MODULE Spec2Model ----
(***************************************************************************)
(* Model of the Pelagic Laser Tomographer firmware: the actuator drivers   *)
(* (Camera.h, Laser.h), the persistence layer (FileSystem.cpp), the serial *)
(* command front end (Commands.cpp) and the run controller that they call. *)
(***************************************************************************)
EXTENDS Integers, Sequences, FiniteSets, TLC

VARIABLES
    camPowerStatus,     \* Camera::powerStatus (presumed power state)
    camRelay,           \* physical position of the camera's toggle relay
    intensifier,        \* physical position of the intensifier's set/unset relay
    laserPowerStatus,   \* Laser::powerStatus
    laserPin,           \* level of LASER_PIN
    trace,              \* pin writes, delays and stores of the current handler
    call,               \* the driver call or command that ran last, with its inputs
    hardwareStatus,     \* getHardwareStatus()
    softwareStatus,     \* getSoftwareStatus()
    cameraStatus,       \* getCameraStatus()
    frameInterval,      \* getFrameInterval(), ms, 32-bit unsigned
    burstSize,          \* getBurstSize(), 8-bit unsigned
    laserContinuous,    \* isLaserContinuous()
    fs,                 \* the static fields of FileSystem
    sd,                 \* the SD card: inserted or not, full or not, its files
    peripherals,        \* "ok", or "missing" when a sensor, clock or battery is absent
    switches,           \* the static fields of Switches
    switchPin,          \* STARTSTOP_SWITCH_PIN and millis(), and what was counted so far
    sensors,            \* Sensors::initialized: the sensors that were found
    readings,           \* the variables that the sensor readers write to
    probes,             \* the presence flags of Clock and Battery, and the devices wired
    pc                  \* where loop() is: between two passes, or inside a cycle

auxVars   == <<switches, switchPin, sensors, readings, probes, pc>>
camVars   == <<camPowerStatus, camRelay, intensifier>>
laserVars == <<laserPowerStatus, laserPin>>
ctlVars   == <<hardwareStatus, softwareStatus, cameraStatus, frameInterval, burstSize,
               laserContinuous>>
fsVars    == <<fs, sd, peripherals, auxVars>>
vars      == <<camPowerStatus, camRelay, intensifier, laserPowerStatus, laserPin,
               trace, call, hardwareStatus, softwareStatus, cameraStatus, frameInterval,
               burstSize, laserContinuous, fs, sd, peripherals, auxVars>>

----------------------------------------------------------------------------
(* Bounds of the model.                                                    *)

MaxBurst == 2

----------------------------------------------------------------------------
(* Constants of the program.                                               *)

CAMERA_SHUTTER_DELAY == 50
CAMERA_RELAY_DELAY == 10
CAMERA_POWERUP_DELAY == 15000
LASER_WARMUP_DELAY == 50

HIGH == "HIGH"
LOW == "LOW"

----------------------------------------------------------------------------
(* Events a handler leaves in the trace: <<kind, name, value>>.            *)

Pin(name, level) == <<"pin", name, level>>
Delay(name, ms)  == <<"delay", name, ms>>
Store(name, v)   == <<"store", name, v>>

B2N(b) == IF b THEN 1 ELSE 0

\* The number of times an event occurs in a trace.
CountEv(tr, e) ==
    Cardinality({i \in 1..Len(tr) : tr[i][1] = e[1] /\ tr[i][2] = e[2] /\ tr[i][3] = e[3]})

\* A relay is pulsed by driving its pin HIGH and, a moment later, LOW.
Pulse(name) == <<Pin(name, HIGH), Delay("CAMERA_RELAY_DELAY", CAMERA_RELAY_DELAY),
                 Pin(name, LOW)>>
Pulses(tr, name) == CountEv(tr, Pin(name, HIGH))

PinEvents(tr) == {i \in 1..Len(tr) : tr[i][1] = "pin"}

\* The places of an event in a trace.
Places(tr, e) ==
    {i \in 1..Len(tr) : tr[i][1] = e[1] /\ tr[i][2] = e[2] /\ tr[i][3] = e[3]}

----------------------------------------------------------------------------
(* Camera.h                                                                *)

\* The camera as a value: presumed state and the two physical relays.
CamState(p, r, i) == [powerStatus |-> p, relay |-> r, intensifier |-> i]

\* Camera::init: the intensifier is unset, the camera is presumed off.
CameraInit(c) ==
    [c  |-> CamState(FALSE, c.relay, FALSE),
     ev |-> Pulse("INTENSIFIER_POWER_UNSET_PIN") \o <<Store("Camera::powerStatus", 0)>>]

\* Camera::setPower that, when forced in the state it is asked for, pulses
\* the intensifier's relay and not the camera's.
CameraSetPowerForceSkipsToggle(c, onOff, force) ==
    IF force = FALSE /\ c.powerStatus = onOff
    THEN [c |-> c, ev |-> <<>>]
    ELSE [c  |-> CamState(onOff, IF c.powerStatus = onOff THEN c.relay ELSE ~c.relay,
                          onOff),
          ev |-> (IF c.powerStatus = onOff THEN <<>>
                                           ELSE Pulse("CAMERA_POWER_SET_PIN"))
                 \o (IF onOff THEN Pulse("INTENSIFIER_POWER_SET_PIN")
                              ELSE Pulse("INTENSIFIER_POWER_UNSET_PIN"))
                 \o (IF onOff THEN <<Delay("CAMERA_POWERUP_DELAY", CAMERA_POWERUP_DELAY)>>
                              ELSE <<>>)
                 \o <<Store("Camera::powerStatus", B2N(onOff))>>]

\* Camera::setPower with the comparison of the early return inverted.
CameraSetPowerInverted(c, onOff, force) ==
    IF force = FALSE /\ c.powerStatus # onOff
    THEN [c |-> c, ev |-> <<>>]
    ELSE [c  |-> CamState(onOff, ~c.relay, onOff),
          ev |-> Pulse("CAMERA_POWER_SET_PIN")
                 \o (IF onOff THEN Pulse("INTENSIFIER_POWER_SET_PIN")
                              ELSE Pulse("INTENSIFIER_POWER_UNSET_PIN"))
                 \o (IF onOff THEN <<Delay("CAMERA_POWERUP_DELAY", CAMERA_POWERUP_DELAY)>>
                              ELSE <<>>)
                 \o <<Store("Camera::powerStatus", B2N(onOff))>>]

\* Camera::setPower with the early return taken whatever force says.
CameraSetPowerIgnoresForce(c, onOff, force) ==
    IF c.powerStatus = onOff
    THEN [c |-> c, ev |-> <<>>]
    ELSE [c  |-> CamState(onOff, ~c.relay, onOff),
          ev |-> Pulse("CAMERA_POWER_SET_PIN")
                 \o (IF onOff THEN Pulse("INTENSIFIER_POWER_SET_PIN")
                              ELSE Pulse("INTENSIFIER_POWER_UNSET_PIN"))
                 \o (IF onOff THEN <<Delay("CAMERA_POWERUP_DELAY", CAMERA_POWERUP_DELAY)>>
                              ELSE <<>>)
                 \o <<Store("Camera::powerStatus", B2N(onOff))>>]

\* Camera::setPower that presumes the camera on before the warm-up.
CameraSetPowerStoresFirst(c, onOff, force) ==
    IF force = FALSE /\ c.powerStatus = onOff
    THEN [c |-> c, ev |-> <<>>]
    ELSE [c  |-> CamState(onOff, ~c.relay, onOff),
          ev |-> Pulse("CAMERA_POWER_SET_PIN")
                 \o (IF onOff THEN Pulse("INTENSIFIER_POWER_SET_PIN")
                              ELSE Pulse("INTENSIFIER_POWER_UNSET_PIN"))
                 \o <<Store("Camera::powerStatus", B2N(onOff))>>
                 \o (IF onOff THEN <<Delay("CAMERA_POWERUP_DELAY", CAMERA_POWERUP_DELAY)>>
                              ELSE <<>>)]

\* Camera::setPower without the pulse of the camera's toggle relay.
CameraSetPowerNoToggle(c, onOff, force) ==
    IF force = FALSE /\ c.powerStatus = onOff
    THEN [c |-> c, ev |-> <<>>]
    ELSE [c  |-> CamState(onOff, c.relay, onOff),
          ev |-> (IF onOff THEN Pulse("INTENSIFIER_POWER_SET_PIN")
                           ELSE Pulse("INTENSIFIER_POWER_UNSET_PIN"))
                 \o (IF onOff THEN <<Delay("CAMERA_POWERUP_DELAY", CAMERA_POWERUP_DELAY)>>
                              ELSE <<>>)
                 \o <<Store("Camera::powerStatus", B2N(onOff))>>]

\* Camera::setPower without the pulse of the intensifier's relays.
CameraSetPowerKeepsIntensifier(c, onOff, force) ==
    IF force = FALSE /\ c.powerStatus = onOff
    THEN [c |-> c, ev |-> <<>>]
    ELSE [c  |-> CamState(onOff, ~c.relay, c.intensifier),
          ev |-> Pulse("CAMERA_POWER_SET_PIN")
                 \o (IF onOff THEN <<Delay("CAMERA_POWERUP_DELAY", CAMERA_POWERUP_DELAY)>>
                              ELSE <<>>)
                 \o <<Store("Camera::powerStatus", B2N(onOff))>>]

\* Camera::setPower(onOff, force).
CameraSetPower(c, onOff, force) ==
    IF force = FALSE /\ c.powerStatus = onOff
    THEN [c |-> c, ev |-> <<>>]
    ELSE [c  |-> CamState(onOff, ~c.relay, onOff),
          ev |-> Pulse("CAMERA_POWER_SET_PIN")
                 \o (IF onOff THEN Pulse("INTENSIFIER_POWER_SET_PIN")
                              ELSE Pulse("INTENSIFIER_POWER_UNSET_PIN"))
                 \o (IF onOff THEN <<Delay("CAMERA_POWERUP_DELAY", CAMERA_POWERUP_DELAY)>>
                              ELSE <<>>)
                 \o <<Store("Camera::powerStatus", B2N(onOff))>>]

\* One trip of the shutter: a pulse and the recovery delay.
ShutterTrip ==
    <<Pin("CAMERA_SHUTTER_PIN", HIGH), Delay("CAMERA_RELAY_DELAY", CAMERA_RELAY_DELAY),
      Pin("CAMERA_SHUTTER_PIN", LOW), Delay("CAMERA_SHUTTER_DELAY", CAMERA_SHUTTER_DELAY)>>

\* The loop of Camera::snap: n trips, one after the other.
ShutterTrips(n) == [i \in 1..(4 * n) |-> ShutterTrip[((i - 1) % 4) + 1]]

\* Camera::snap without the check of the presumed power state.
CameraSnapIgnoresPower(c, nImages) == ShutterTrips(nImages)

\* Camera::snap with a loop that runs once too often.
CameraSnapOneMore(c, nImages) ==
    IF ~c.powerStatus THEN <<>> ELSE ShutterTrips(nImages + 1)

\* Camera::snap(nImages), nImages an 8-bit unsigned value.
CameraSnap(c, nImages) ==
    IF ~c.powerStatus THEN <<>> ELSE ShutterTrips(nImages)

----------------------------------------------------------------------------
(* Laser.h                                                                 *)

LaserState(p, pin) == [powerStatus |-> p, pin |-> pin]

\* Laser::setPower(onOff).
LaserSetPower(l, onOff) ==
    IF l.powerStatus = onOff
    THEN [l |-> l, ev |-> <<>>]
    ELSE [l  |-> LaserState(onOff, IF onOff THEN HIGH ELSE LOW),
          ev |-> <<Pin("LASER_PIN", IF onOff THEN HIGH ELSE LOW)>>
                 \o (IF onOff THEN <<Delay("LASER_WARMUP_DELAY", LASER_WARMUP_DELAY)>>
                              ELSE <<>>)
                 \o <<Store("Laser::powerStatus", B2N(onOff))>>]

\* Laser::testCycle: three on/off cycles, i = 3, 2, 1.
RECURSIVE LaserTestCycleFrom(_, _)
LaserTestCycleFrom(l, i) ==
    IF i = 0 THEN [l |-> l, ev |-> <<>>]
    ELSE LET on   == LaserSetPower(l, TRUE)
             off  == LaserSetPower(on.l, FALSE)
             rest == LaserTestCycleFrom(off.l, i - 1)
         IN  [l  |-> rest.l,
              ev |-> on.ev \o <<Delay("LASER_WARMUP_DELAY", LASER_WARMUP_DELAY)>>
                     \o off.ev
                     \o (IF i # 1 THEN <<Delay("LASER_WARMUP_DELAY", LASER_WARMUP_DELAY)>>
                                  ELSE <<>>)
                     \o rest.ev]

\* Laser::testCycle that leaves a laser that was on as it was.
LaserTestCycleKeepsOn(l) ==
    IF l.powerStatus THEN [l |-> l, ev |-> <<>>] ELSE LaserTestCycleFrom(l, 3)

LaserTestCycle(l) == LaserTestCycleFrom(l, 3)

\* Laser::init: presumed off, then a test cycle.
LaserInit(l) ==
    LET t == LaserTestCycle(LaserState(FALSE, l.pin))
    IN  [l |-> t.l, ev |-> <<Store("Laser::powerStatus", 0)>> \o t.ev]

----------------------------------------------------------------------------
(* Integer conversions of the program (32-bit int, unsigned stores).       *)

U8(k)  == k % 256
U16(k) == k % 65536

\* int to uint32_t on the 32-bit processor (Lights.h 14: Feather M0): the bit
\* pattern is kept. A uint32_t is written here as the signed reading of its 32
\* bits, so the values from 2^31 up are the negative numbers.
U32(k) == k

\* a < b between two uint32_t.
ULess(a, b) == IF (a >= 0) = (b >= 0) THEN a < b ELSE a >= 0

\* printf "%ld" of a uint32_t: the 32 bits read as a signed long.
FormatLd(u) == u

\* Text of a command argument or of a settings value: a decimal numeral, a
\* word that is no number, or nothing.
Num(k) == <<"num", k>>
Word   == <<"word", 0>>
Empty  == <<"empty", 0>>

\* atoi: the value of a numeral, 0 for anything else.
Atoi(text) == IF text[1] = "num" THEN text[2] ELSE 0

----------------------------------------------------------------------------
(* Switches.h: the start/stop switch, debounced.                           *)

SWITCH_DEBOUNCE_PERIOD == 50
SWITCH_DOWN == 0
SWITCH_UP == 1

\* Switches::init with the pin at this level.
SwitchesInit(level) ==
    [lastDebounceMillis |-> 0, count |-> 0, previousSteadyState |-> level,
     lastSteadyState |-> level, lastFlickerableState |-> level]

\* Switches::update when digitalRead returns currentState and millis()
\* returns millis.
SwitchesUpdate(w, currentState, millis) ==
    LET w1 == IF currentState # w.lastFlickerableState
              THEN [w EXCEPT !.lastDebounceMillis = millis,
                             !.lastFlickerableState = currentState]
              ELSE w
        w2 == IF ~ULess(U32(millis - w1.lastDebounceMillis), SWITCH_DEBOUNCE_PERIOD)
              THEN [w1 EXCEPT !.previousSteadyState = w1.lastSteadyState,
                              !.lastSteadyState = currentState]
              ELSE w1
    IN  IF w2.previousSteadyState # w2.lastSteadyState
           /\ w2.lastSteadyState = SWITCH_UP
        THEN [w2 EXCEPT !.count = U16(@ + 1)]
        ELSE w2

\* Switches::isStartStopPressed: what it returns and the fields after it.
IsStartStopPressed(w) ==
    IF w.count > 0 THEN [ok |-> TRUE, w |-> [w EXCEPT !.count = 0]]
    ELSE [ok |-> FALSE, w |-> w]

----------------------------------------------------------------------------
(* Sensors.h: the readers of the inertia module, the pressure sensor and   *)
(* the temperature sensor. Temperatures of the inertia module are in       *)
(* sixteenths of a degree, the other values in whole units.                *)

BAD_WATER_TEMPERATURE == -274

Zero3 == <<0, 0, 0>>

\* The bits of Sensors::initialized.
SensorNames == {"inertia", "pressure", "temperature"}
IsInertiaSensorPresent(found) == "inertia" \in found
IsPressureSensorPresent(found) == "pressure" \in found
IsTemperatureSensorPresent(found) == "temperature" \in found

\* temp = t.temperature / 16.0 + 27.5, in sixteenths of a degree.
DeviceTemperature(t) == t + 440

\* Sensors::getInertia(accel, mag, gyro, temp): out holds the variables that
\* the caller passes, event is what the module measures.
GetInertia(found, out, event) ==
    IF ~IsInertiaSensorPresent(found)
    THEN [out EXCEPT !.accel = Zero3, !.mag = Zero3, !.gyro = Zero3]
    ELSE [out EXCEPT !.accel = event.a, !.mag = event.m, !.gyro = event.g,
                     !.deviceTemperature = DeviceTemperature(event.t)]

\* Sensors::getWaterPressure(pressure, depth).
GetWaterPressure(found, out, pressure, depth) ==
    IF ~IsPressureSensorPresent(found)
    THEN [out EXCEPT !.pressure = 0, !.depth = 0]
    ELSE [out EXCEPT !.pressure = pressure, !.depth = depth]

\* Sensors::getWaterTemperature(temp).
GetWaterTemperature(found, out, temperature) ==
    IF ~IsTemperatureSensorPresent(found)
    THEN [out EXCEPT !.waterTemperature = 0]
    ELSE [out EXCEPT !.waterTemperature =
            IF temperature <= BAD_WATER_TEMPERATURE THEN 0 ELSE temperature]

\* The variables of a caller, all holding v.
Outputs(v) ==
    [accel |-> <<v, v, v>>, mag |-> <<v, v, v>>, gyro |-> <<v, v, v>>,
     deviceTemperature |-> v, pressure |-> v, depth |-> v, waterTemperature |-> v]

----------------------------------------------------------------------------
(* Clock.h, Battery.h: the presence flags. probes holds Clock::initialized, *)
(* Battery::mainInitialized and Battery::controllerInitialized, and in     *)
(* found the devices that answer on the bus.                               *)

ProbedDevices == {"clock", "main", "controller"}

\* The flags as the program starts, with these devices wired.
ProbesAt(found) ==
    [initialized |-> FALSE, mainInitialized |-> FALSE,
     controllerInitialized |-> FALSE, found |-> found]

\* Clock::init: rtc.begin() and the set-and-read-back test both pass when
\* the clock answers; the flag is written on success only.
ClockInit(p) ==
    IF "clock" \notin p.found THEN [ok |-> FALSE, p |-> p]
    ELSE [ok |-> TRUE, p |-> [p EXCEPT !.initialized = TRUE]]

\* Clock::isClockPresent.
IsClockPresent(p) == p.initialized

\* Battery::init with an LC709203F monitor on both batteries: each flag is
\* written when begin() of its monitor succeeds.
BatteryInit(p) ==
    LET p1 == IF "controller" \in p.found
              THEN [p EXCEPT !.controllerInitialized = TRUE] ELSE p
        p2 == IF "main" \in p.found
              THEN [p1 EXCEPT !.mainInitialized = TRUE] ELSE p1
    IN  [ok |-> p2.mainInitialized /\ p2.controllerInitialized, p |-> p2]

\* Battery::isMainPresent and Battery::isControllerPresent.
IsMainPresent(p) == p.mainInitialized
IsControllerPresent(p) == p.controllerInitialized

----------------------------------------------------------------------------
(* The switch, the sensors and loop() where a specification leaves them    *)
(* alone.                                                                  *)

\* The switch pin at a level when the processor starts: nothing was counted,
\* and update() has read nothing yet.
SwitchPinAt(level) ==
    [level |-> level, millis |-> 0, presses |-> 0, returned |-> 0, twice |-> FALSE,
     last |-> FALSE, seen |-> <<{}, {}>>]

SwitchesIdle ==
    /\ switches = SwitchesInit(SWITCH_DOWN)
    /\ switchPin = SwitchPinAt(SWITCH_DOWN)

SensorsIdle ==
    /\ sensors = SensorNames
    /\ readings = Outputs(0)

ProbesIdle == probes = ProbesAt(ProbedDevices)

AuxIdle ==
    /\ SwitchesIdle
    /\ SensorsIdle
    /\ ProbesIdle
    /\ pc = "loop"

----------------------------------------------------------------------------
(* pltlogger.h                                                             *)

DEFAULT_FRAME_INTERVAL == 1000
DEFAULT_BURST_SIZE == 1
DEFAULT_LASER_CONTINUOUS == FALSE
MINIMUM_FRAME_INTERVAL == 200

HardwareStatuses == {"HARDWARE_OFF", "HARDWARE_BOOTING", "HARDWARE_ERRORS",
                     "HARDWARE_WARNINGS", "HARDWARE_READY"}
SoftwareStatuses == {"SOFTWARE_OFF", "SOFTWARE_BOOTING", "SOFTWARE_ERRORS",
                     "SOFTWARE_READY", "SOFTWARE_RUNNING"}
CameraStatuses   == {"CAMERA_OFF", "CAMERA_BOOTING", "CAMERA_READY", "CAMERA_SHOOTING"}

----------------------------------------------------------------------------
(* FileSystem.h, FileSystem.cpp                                            *)

\* The size of the pool of data log names DATA_nn.CSV (MAX_LOG_FILES, 100 in the
\* program, scaled down here).
MaxLogFiles == 1

NoFile == -1
LogNumbers == 0..(MaxLogFiles - 1)

\* The columns of writeDataLogHeader's format and the conversions of
\* writeDataLog's format (FileSystem.h defines BATTERY_IN_DATA_LOG).
HeaderColumns ==
    <<"Timestamp", "Milliseconds", "Pressure", "Depth", "Water_Temperature",
      "Device_Temperature", "Acceleration_X", "Acceleration_Y", "Acceleration_Z",
      "Magnetic_X", "Magnetic_Y", "Magnetic_Z", "Gyroscope_X", "Gyroscope_Y",
      "Gyroscope_Z", "Controller_Volts", "Controller_Percent", "Main_Volts",
      "Main_Percent">>
RowConversions ==
    <<"\"%s\"", "%ld", "%f", "%f", "%f", "%f", "%f", "%f", "%f", "%f", "%f", "%f",
      "%f", "%f", "%f", "%5.3f", "%3.1f", "%5.3f", "%3.1f">>

\* A line of a data log: what it is, its number of fields and its terminator.
HeaderLine == [kind |-> "header", fields |-> Len(HeaderColumns), eol |-> "\r\n"]
RowLine    == [kind |-> "row", fields |-> Len(RowConversions), eol |-> "\r\n"]

AbsentFile == [exists |-> FALSE, lines |-> <<>>]
File(lines) == [exists |-> TRUE, lines |-> lines]

\* sd.sdErrorCode(): SdFat reports a card that does not answer and nothing else.
SdErrorCode(s) == IF s.present THEN "SD_CARD_ERROR_NONE" ELSE "SD_CARD_ERROR_CMD0"

\* A write followed by a sync succeeds on an inserted card with room left.
WriteSucceeds(s) == s.present /\ ~s.full

\* FileSystem::isDataLogOpen.
IsDataLogOpen(f) == f.logFile # NoFile

\* FileSystem::hasError.
HasError(f) ==
    f.localErrorCode # "FS_ERROR_NONE" \/ f.cardErrorCode # "SD_CARD_ERROR_NONE"

\* FileSystem::init.
FsInit(f, s) ==
    IF ~s.present
    THEN [f EXCEPT !.initialized = FALSE, !.localErrorCode = "FS_ERROR_NOCARD",
                   !.cardErrorCode = SdErrorCode(s)]
    ELSE [f EXCEPT !.initialized = TRUE, !.localErrorCode = "FS_ERROR_NONE",
                   !.cardErrorCode = "SD_CARD_ERROR_NONE"]

\* FileSystem::isCardPresent: the answer and the fields after the call.
IsCardPresent(f, s) ==
    IF ~f.initialized THEN [ok |-> FALSE, f |-> f]
    ELSE IF s.present THEN [ok |-> TRUE, f |-> f]
    ELSE [ok |-> FALSE, f |-> [f EXCEPT !.localErrorCode = "FS_ERROR_NOCARD"]]

\* FileSystem::closeDataLog.
CloseDataLog(f) ==
    [f EXCEPT !.logFile = NoFile, !.numberOfDataLogEntries = 0,
              !.localErrorCode = "FS_ERROR_NONE"]

\* A failed write or sync that leaves the log open.
WriteFailedLeavesOpen(f, s) ==
    [f EXCEPT !.cardErrorCode = SdErrorCode(s),
              !.localErrorCode = IF ~s.present THEN "FS_ERROR_NOCARD"
                                               ELSE "FS_ERROR_CARD_FULL",
              !.numberOfDataLogEntries = 0]

\* A failed write or sync that closes the log and keeps the entry counter.
WriteFailedKeepsCount(f, s) ==
    [f EXCEPT !.cardErrorCode = SdErrorCode(s),
              !.localErrorCode = IF ~s.present THEN "FS_ERROR_NOCARD"
                                               ELSE "FS_ERROR_CARD_FULL",
              !.logFile = NoFile]

\* The error codes and the closed log after a failed write or sync.
WriteFailed(f, s) ==
    [f EXCEPT !.cardErrorCode = SdErrorCode(s),
              !.localErrorCode = IF ~s.present THEN "FS_ERROR_NOCARD"
                                               ELSE "FS_ERROR_CARD_FULL",
              !.logFile = NoFile,
              !.numberOfDataLogEntries = 0]

\* FileSystem::writeDataLogHeader.
WriteDataLogHeader(f, s) ==
    IF ~IsDataLogOpen(f) THEN [ok |-> FALSE, f |-> f, s |-> s]
    ELSE IF ~WriteSucceeds(s) THEN [ok |-> FALSE, f |-> WriteFailed(f, s), s |-> s]
    ELSE [ok |-> TRUE, f |-> f,
          s  |-> [s EXCEPT !.data[f.logFile].lines = @ \o <<HeaderLine>>]]

\* sd.exists of a data log name.
Exists(s, i) == s.present /\ s.data[i].exists

\* The numbers i of the names DATA_ii.CSV that newDataLog tries, 0 to
\* MAX_LOG_FILES - 1: a card of the model has room for as many names as its
\* data field has entries.
Numbers(s) == DOMAIN s.data

\* FileSystem::newDataLog with the loop over the numbers run downwards.
NewDataLogHighest(f, s) ==
    IF ~f.initialized THEN [ok |-> FALSE, f |-> f, s |-> s]
    ELSE
    LET f0   == [f EXCEPT !.logFile = NoFile, !.numberOfDataLogEntries = 0,
                          !.localErrorCode = "FS_ERROR_NONE",
                          !.cardErrorCode = "SD_CARD_ERROR_NONE"]
        free == {i \in Numbers(s) : ~Exists(s, i)}
    IN  IF free = {}
        THEN [ok |-> FALSE, s |-> s,
              f  |-> [f0 EXCEPT !.localErrorCode = "FS_ERROR_TOO_MANY_LOG_FILES"]]
        ELSE
        LET i      == CHOOSE j \in free : \A k \in free : j >= k
            opened == s.present
            f1     == IF opened
                      THEN [f0 EXCEPT !.logFile = i]
                      ELSE [f0 EXCEPT !.cardErrorCode = SdErrorCode(s),
                                      !.localErrorCode = "FS_ERROR_NOCARD"]
            s1     == IF opened THEN [s EXCEPT !.data[i] = File(<<>>)] ELSE s
            h      == WriteDataLogHeader(f1, s1)
        IN  IF h.ok
            THEN [ok |-> opened, f |-> h.f, s |-> h.s]
            ELSE [ok |-> FALSE, f |-> h.f,
                  s  |-> IF h.s.present THEN [h.s EXCEPT !.data[i] = AbsentFile]
                                        ELSE h.s]

\* FileSystem::newDataLog without the call of writeDataLogHeader.
NewDataLogNoHeader(f, s) ==
    IF ~f.initialized THEN [ok |-> FALSE, f |-> f, s |-> s]
    ELSE
    LET f0   == [f EXCEPT !.logFile = NoFile, !.numberOfDataLogEntries = 0,
                          !.localErrorCode = "FS_ERROR_NONE",
                          !.cardErrorCode = "SD_CARD_ERROR_NONE"]
        free == {i \in Numbers(s) : ~Exists(s, i)}
    IN  IF free = {}
        THEN [ok |-> FALSE, s |-> s,
              f  |-> [f0 EXCEPT !.localErrorCode = "FS_ERROR_TOO_MANY_LOG_FILES"]]
        ELSE
        LET i      == CHOOSE j \in free : \A k \in free : j <= k
            opened == s.present
            f1     == IF opened
                      THEN [f0 EXCEPT !.logFile = i]
                      ELSE [f0 EXCEPT !.cardErrorCode = SdErrorCode(s),
                                      !.localErrorCode = "FS_ERROR_NOCARD"]
            s1     == IF opened THEN [s EXCEPT !.data[i] = File(<<>>)] ELSE s
            h      == [ok |-> opened, f |-> f1, s |-> s1]
        IN  IF h.ok
            THEN [ok |-> opened, f |-> h.f, s |-> h.s]
            ELSE [ok |-> FALSE, f |-> h.f,
                  s  |-> IF h.s.present THEN [h.s EXCEPT !.data[i] = AbsentFile]
                                        ELSE h.s]

\* FileSystem::newDataLog.
NewDataLog(f, s) ==
    IF ~f.initialized THEN [ok |-> FALSE, f |-> f, s |-> s]
    ELSE
    LET f0   == [f EXCEPT !.logFile = NoFile, !.numberOfDataLogEntries = 0,
                          !.localErrorCode = "FS_ERROR_NONE",
                          !.cardErrorCode = "SD_CARD_ERROR_NONE"]
        free == {i \in Numbers(s) : ~Exists(s, i)}
    IN  IF free = {}
        THEN [ok |-> FALSE, s |-> s,
              f  |-> [f0 EXCEPT !.localErrorCode = "FS_ERROR_TOO_MANY_LOG_FILES"]]
        ELSE
        LET i      == CHOOSE j \in free : \A k \in free : j <= k
            opened == s.present
            f1     == IF opened
                      THEN [f0 EXCEPT !.logFile = i]
                      ELSE [f0 EXCEPT !.cardErrorCode = SdErrorCode(s),
                                      !.localErrorCode = "FS_ERROR_NOCARD"]
            s1     == IF opened THEN [s EXCEPT !.data[i] = File(<<>>)] ELSE s
            h      == WriteDataLogHeader(f1, s1)
        IN  IF h.ok
            THEN [ok |-> opened, f |-> h.f, s |-> h.s]
            ELSE [ok |-> FALSE, f |-> h.f,
                  s  |-> IF h.s.present THEN [h.s EXCEPT !.data[i] = AbsentFile]
                                        ELSE h.s]

\* FileSystem::writeDataLog with the entry counter left alone on success.
WriteDataLogForgetsCount(f, s) ==
    IF ~IsDataLogOpen(f) THEN [ok |-> FALSE, f |-> f, s |-> s]
    ELSE IF ~WriteSucceeds(s) THEN [ok |-> FALSE, f |-> WriteFailed(f, s), s |-> s]
    ELSE [ok |-> TRUE, f |-> f,
          s  |-> [s EXCEPT !.data[f.logFile].lines = @ \o <<RowLine>>]]

\* FileSystem::writeDataLog.
WriteDataLog(f, s) ==
    IF ~IsDataLogOpen(f) THEN [ok |-> FALSE, f |-> f, s |-> s]
    ELSE IF ~WriteSucceeds(s) THEN [ok |-> FALSE, f |-> WriteFailed(f, s), s |-> s]
    ELSE [ok |-> TRUE,
          f  |-> [f EXCEPT !.numberOfDataLogEntries = @ + 1],
          s  |-> [s EXCEPT !.data[f.logFile].lines = @ \o <<RowLine>>]]

\* SETTINGS.TXT is a sequence of characters.
NoTextFile == [exists |-> FALSE, bytes |-> <<>>]
TextFile(bytes) == [exists |-> TRUE, bytes |-> bytes]

BUFFER_SIZE == 1025

CRLF == <<"\r", "\n">>
Digit == <<"0", "1", "2", "3", "4", "5", "6", "7", "8", "9">>
IntervalName == <<"i", "n", "t", "e", "r", "v", "a", "l">>
BurstsizeName == <<"b", "u", "r", "s", "t", "s", "i", "z", "e">>
LasercontinuousName ==
    <<"l", "a", "s", "e", "r", "c", "o", "n", "t", "i", "n", "u", "o", "u", "s">>

\* isSpace and isdigit of a character.
IsSpace(c) == c \in {" ", "\t", "\n", "\r", "\f"}
IsDigit(c) == \E d \in 1..10 : Digit[d] = c
DigitValue(c) == (CHOOSE d \in 1..10 : Digit[d] = c) - 1

\* printf "%d" and "%ld" of a 32-bit value: its decimal numeral.
RECURSIVE Digits(_)
Digits(n) ==
    IF n < 10 THEN <<Digit[n + 1]>>
    ELSE Digits(n \div 10) \o <<Digit[(n % 10) + 1]>>
Decimal(n) == IF n < 0 THEN <<"-">> \o Digits(-n) ELSE Digits(n)

RECURSIVE SkipSpaces(_)
SkipSpaces(text) ==
    IF text # <<>> /\ IsSpace(Head(text)) THEN SkipSpaces(Tail(text)) ELSE text

RECURSIVE FirstWord(_)
FirstWord(text) ==
    IF text = <<>> \/ IsSpace(Head(text)) THEN <<>>
    ELSE <<Head(text)>> \o FirstWord(Tail(text))

\* atoi of a text: white space, a sign, and the digits up to the first
\* character that is not one.
RECURSIVE AtoiDigits(_, _)
AtoiDigits(text, acc) ==
    IF text = <<>> \/ ~IsDigit(Head(text)) THEN acc
    ELSE AtoiDigits(Tail(text), 10 * acc + DigitValue(Head(text)))
AtoiText(text) ==
    LET t == SkipSpaces(text)
    IN  IF t # <<>> /\ Head(t) = "-" THEN 0 - AtoiDigits(Tail(t), 0)
        ELSE IF t # <<>> /\ Head(t) = "+" THEN AtoiDigits(Tail(t), 0)
        ELSE AtoiDigits(t, 0)

\* FileSystem::readLine: the bytes up to the next line feed or to the end of
\* the buffer, the carriage returns dropped; line is what is in the buffer,
\* rest what is left of the file.
RECURSIVE ReadLineInto(_, _)
ReadLineInto(line, bytes) ==
    IF Len(line) >= BUFFER_SIZE - 1 \/ bytes = <<>>
    THEN [line |-> line, rest |-> bytes]
    ELSE IF Head(bytes) = "\r" THEN ReadLineInto(line, Tail(bytes))
    ELSE IF Head(bytes) = "\n" THEN [line |-> line, rest |-> Tail(bytes)]
    ELSE ReadLineInto(line \o <<Head(bytes)>>, Tail(bytes))
ReadLine(bytes) == ReadLineInto(<<>>, bytes)

\* FileSystem::parseLine: the first word and what follows it.
ParseLine(line) ==
    LET s     == SkipSpaces(line)
        name  == FirstWord(s)
        after == SubSeq(s, Len(name) + 1, Len(s))
    IN  [name  |-> name,
         value |-> IF after = <<>> THEN <<>> ELSE SkipSpaces(Tail(after))]

\* The loop of FileSystem::loadSettings over the lines that readLine returns:
\* it ends at the first line of zero bytes, which is also the end of the file.
RECURSIVE LoadLines(_, _)
LoadLines(bytes, v) ==
    LET r == ReadLine(bytes)
        p == ParseLine(r.line)
    IN  IF r.line = <<>> THEN v
        ELSE IF p.name = <<>> \/ p.value = <<>> THEN LoadLines(r.rest, v)
        ELSE IF p.name = IntervalName
             THEN LoadLines(r.rest, [v EXCEPT !.interval = U32(AtoiText(p.value))])
        ELSE IF p.name = BurstsizeName
             THEN LoadLines(r.rest, [v EXCEPT !.burstSize = U8(AtoiText(p.value))])
        ELSE IF p.name = LasercontinuousName
             THEN LoadLines(r.rest,
                            [v EXCEPT !.isLaserContinuous = (AtoiText(p.value) = 1)])
        ELSE LoadLines(r.rest, v)

Settings(interval, isLaserContinuous, burst) ==
    [interval |-> interval, isLaserContinuous |-> isLaserContinuous, burstSize |-> burst]

\* FileSystem::loadSettings: v holds the three in/out arguments.
LoadSettings(f, s, v) ==
    IF ~f.initialized THEN [ok |-> FALSE, v |-> v]
    ELSE IF ~(s.present /\ s.settings.exists) THEN [ok |-> FALSE, v |-> v]
    ELSE [ok |-> TRUE, v |-> LoadLines(s.settings.bytes, v)]

\* A line of SETTINGS.TXT as saveSettings writes it.
SettingsLine(name, value) == name \o <<" ">> \o value \o CRLF

\* The text that saveSettings formats.
SavedText(v) ==
    SettingsLine(IntervalName, Decimal(FormatLd(v.interval)))
    \o SettingsLine(BurstsizeName, Decimal(v.burstSize))
    \o SettingsLine(LasercontinuousName, Decimal(B2N(v.isLaserContinuous)))

\* FileSystem::saveSettings. The file is opened without truncation and
\* written from its first byte, so the bytes of an older, longer file stay
\* behind the new text.
SaveSettings(f, s, v) ==
    IF ~f.initialized THEN [ok |-> FALSE, f |-> f, s |-> s]
    ELSE
    LET f0  == [f EXCEPT !.localErrorCode = "FS_ERROR_NONE",
                         !.cardErrorCode = "SD_CARD_ERROR_NONE"]
        old == IF s.settings.exists THEN s.settings.bytes ELSE <<>>
        new == SavedText(v)
    IN  IF ~s.present THEN [ok |-> FALSE, f |-> f0, s |-> s]
        ELSE IF s.full
        THEN [ok |-> FALSE, s |-> [s EXCEPT !.settings = TextFile(old)],
              f  |-> [f0 EXCEPT !.cardErrorCode = SdErrorCode(s),
                                !.localErrorCode = "FS_ERROR_CARD_FULL"]]
        ELSE [ok |-> TRUE, f |-> f0,
              s  |-> [s EXCEPT !.settings =
                         TextFile(new \o SubSeq(old, Len(new) + 1, Len(old)))]]

\* STATUS.TXT is a sequence of messages (the time stamps are left out).
NoStatusLog == [exists |-> FALSE, lines |-> <<>>]

\* STATUS.TXT of a card that this program has formatted.
FreshStatusLog ==
    [exists |-> TRUE, lines |-> <<"Log file created", "SD card formatted">>]

\* FileSystem::writeStatus(message): nothing is done before init; the file is
\* created with a first message, and the message is appended.
WriteStatus(f, s, message) ==
    LET clean == [f EXCEPT !.localErrorCode = "FS_ERROR_NONE",
                           !.cardErrorCode = "SD_CARD_ERROR_NONE"]
        first == IF s.status.exists THEN <<>> ELSE <<"Log file created">>
    IN  IF ~f.initialized THEN [ok |-> FALSE, f |-> f, s |-> s]
        ELSE IF ~s.present
        THEN [ok |-> FALSE, f |-> [clean EXCEPT !.cardErrorCode = SdErrorCode(s)],
              s |-> s]
        ELSE IF ~WriteSucceeds(s)
        THEN [ok |-> FALSE,
              f  |-> [clean EXCEPT !.cardErrorCode = SdErrorCode(s),
                                   !.localErrorCode = "FS_ERROR_CARD_FULL"],
              s  |-> [s EXCEPT !.status.exists = TRUE]]
        ELSE [ok |-> TRUE, f |-> clean,
              s  |-> [s EXCEPT !.status = [exists |-> TRUE,
                                           lines  |-> @.lines \o first \o <<message>>]]]

\* FileSystem::getErrorMessage as far as it is told apart from other messages.
GetErrorMessage(f) == <<"error", f.localErrorCode, f.cardErrorCode>>

\* FileSystem::format with the outcome of sd.format on a card that is in the
\* slot (without a card it fails): the fields are reset, the status log is
\* written to, the card is erased when sd.format succeeds, init is called
\* again; the log file object is not touched.
Format(f, s, formats) ==
    LET f0 == [f EXCEPT !.initialized = FALSE,
                        !.localErrorCode = "FS_ERROR_UNINITIALIZED",
                        !.cardErrorCode = "SD_CARD_ERROR_INIT_NOT_CALLED"]
        w1 == WriteStatus(f0, s, "SD card format")
        ok == w1.s.present /\ formats
        s1 == [w1.s EXCEPT !.data = [i \in Numbers(s) |-> AbsentFile],
                           !.settings = NoTextFile, !.status = NoStatusLog,
                           !.full = FALSE]
        f1 == [w1.f EXCEPT !.localErrorCode = "FS_ERROR_NONE",
                           !.cardErrorCode = SdErrorCode(w1.s)]
        w2 == WriteStatus(f1, w1.s, "SD card format failed")
        w3 == WriteStatus(w2.f, w2.s, GetErrorMessage(f1))
        f2 == FsInit(IF ok THEN w1.f ELSE w3.f, IF ok THEN s1 ELSE w3.s)
        s2 == IF ok THEN s1 ELSE w3.s
        w4 == IF f2.initialized THEN WriteStatus(f2, s2, "SD card formatted")
                                ELSE [ok |-> FALSE, f |-> f2, s |-> s2]
    IN  [ok |-> f2.initialized, f |-> w4.f, s |-> w4.s]

\* The file commands cat, du, head, ls, rm and tail as far as the error codes
\* go: goodPath says whether the path opens.
FileCommand(f, s, name, goodPath) ==
    LET present == IsCardPresent(f, s)
        clean   == [f EXCEPT !.localErrorCode = "FS_ERROR_NONE",
                             !.cardErrorCode = "SD_CARD_ERROR_NONE"]
        opens   == goodPath /\ s.present
    IN  IF name # "cat" /\ ~present.ok
        THEN [ok |-> FALSE,
              f  |-> [present.f EXCEPT !.cardErrorCode = SdErrorCode(s),
                                       !.localErrorCode = "FS_ERROR_NOCARD"]]
        ELSE IF ~opens
        THEN [ok |-> FALSE, f |-> [clean EXCEPT !.localErrorCode = "FS_ERROR_BAD_PATH"]]
        ELSE [ok |-> TRUE, f |-> clean]

----------------------------------------------------------------------------
(* The state of the drivers as values.                                     *)

cam   == CamState(camPowerStatus, camRelay, intensifier)
laser == LaserState(laserPowerStatus, laserPin)

SetCam(c) ==
    /\ camPowerStatus' = c.powerStatus
    /\ camRelay' = c.relay
    /\ intensifier' = c.intensifier

SetLaser(l) ==
    /\ laserPowerStatus' = l.powerStatus
    /\ laserPin' = l.pin

----------------------------------------------------------------------------
(* Commands.h                                                              *)

Status(hw, sw) == [hw |-> hw, sw |-> sw]

\* Commands::updateStatus that takes a card that is present for a reason to
\* leave the error state.
UpdateStatusClearsErrors(f, s, st) ==
    IF f.localErrorCode = "FS_ERROR_NOCARD"
    THEN [f |-> f, st |-> Status("HARDWARE_ERRORS", "SOFTWARE_ERRORS")]
    ELSE IF f.localErrorCode \in {"FS_ERROR_BAD_FORMAT", "FS_ERROR_CARD_FULL"}
    THEN [f |-> f, st |-> Status(st.hw, "SOFTWARE_ERRORS")]
    ELSE LET present == IsCardPresent(f, s)
         IN  IF ~present.ok
             THEN [f |-> present.f, st |-> Status("HARDWARE_ERRORS", "SOFTWARE_ERRORS")]
             ELSE [f |-> present.f, st |-> Status(st.hw, "SOFTWARE_READY")]

\* Commands::updateStatus that forgets the software status when the card is
\* gone.
UpdateStatusHardwareOnly(f, s, st) ==
    IF f.localErrorCode = "FS_ERROR_NOCARD"
    THEN [f |-> f, st |-> Status("HARDWARE_ERRORS", st.sw)]
    ELSE IF f.localErrorCode \in {"FS_ERROR_BAD_FORMAT", "FS_ERROR_CARD_FULL"}
    THEN [f |-> f, st |-> Status(st.hw, "SOFTWARE_ERRORS")]
    ELSE LET present == IsCardPresent(f, s)
         IN  IF ~present.ok
             THEN [f |-> present.f, st |-> Status("HARDWARE_ERRORS", st.sw)]
             ELSE [f |-> present.f, st |-> st]

\* Commands::updateStatus: the statuses and the FileSystem fields after it.
UpdateStatus(f, s, st) ==
    IF f.localErrorCode = "FS_ERROR_NOCARD"
    THEN [f |-> f, st |-> Status("HARDWARE_ERRORS", "SOFTWARE_ERRORS")]
    ELSE IF f.localErrorCode \in {"FS_ERROR_BAD_FORMAT", "FS_ERROR_CARD_FULL"}
    THEN [f |-> f, st |-> Status(st.hw, "SOFTWARE_ERRORS")]
    ELSE LET present == IsCardPresent(f, s)
         IN  IF ~present.ok
             THEN [f |-> present.f, st |-> Status("HARDWARE_ERRORS", "SOFTWARE_ERRORS")]
             ELSE [f |-> present.f, st |-> st]

----------------------------------------------------------------------------
(* The run controller: the functions pltlogger.h declares and the sketch   *)
(* defines (setup, loop, reset, startRunning, stopRunning, snapAndLog and  *)
(* the setters of the settings).                                           *)

status == Status(hardwareStatus, softwareStatus)
settings == Settings(frameInterval, laserContinuous, burstSize)

SetStatus(st) ==
    /\ hardwareStatus' = st.hw
    /\ softwareStatus' = st.sw

SetSettings(v) ==
    /\ frameInterval' = v.interval
    /\ laserContinuous' = v.isLaserContinuous
    /\ burstSize' = v.burstSize

\* The statuses that follow from the peripherals found: a missing card is an
\* error; a missing sensor, clock or battery monitor is a warning in this build.
DeriveStatus(f, p) ==
    IF ~f.initialized THEN Status("HARDWARE_ERRORS", "SOFTWARE_ERRORS")
    ELSE IF p = "missing" THEN Status("HARDWARE_WARNINGS", "SOFTWARE_READY")
    ELSE Status("HARDWARE_READY", "SOFTWARE_READY")

\* The statuses after a storage failure of the controller: classified as
\* updateStatus classifies, and the software status is Errors.
StorageFailure(f, s, st) ==
    LET u == UpdateStatus(f, s, st)
    IN  [f |-> u.f, st |-> Status(u.st.hw, "SOFTWARE_ERRORS")]

\* setFrameInterval: 0 asks for the default, anything else below the minimum
\* is refused; an accepted value is saved with the other settings.
SetFrameInterval(f, s, v, interval) ==
    IF interval # 0 /\ ULess(interval, MINIMUM_FRAME_INTERVAL)
    THEN [ok |-> FALSE, f |-> f, s |-> s, v |-> v]
    ELSE LET v1 == [v EXCEPT !.interval = IF interval = 0 THEN DEFAULT_FRAME_INTERVAL
                                                            ELSE interval]
             w  == SaveSettings(f, s, v1)
         IN  [ok |-> TRUE, f |-> w.f, s |-> w.s, v |-> v1]

\* setBurstSize.
SetBurstSize(f, s, v, n) ==
    LET v1 == [v EXCEPT !.burstSize = n]
        w  == SaveSettings(f, s, v1)
    IN  [ok |-> TRUE, f |-> w.f, s |-> w.s, v |-> v1]

\* setLaserContinuous.
SetLaserContinuous(f, s, v, b) ==
    LET v1 == [v EXCEPT !.isLaserContinuous = b]
        w  == SaveSettings(f, s, v1)
    IN  [ok |-> TRUE, f |-> w.f, s |-> w.s, v |-> v1]

\* The number of shutter trips of snapAndLog(n): one when n <= 1.
Trips(n) == IF n <= 1 THEN 1 ELSE n

\* startRunning: a fresh data log; on success the run starts, and in
\* continuous mode the laser is turned on for the whole run.
StartRunning ==
    LET r == NewDataLog(fs, sd)
        l == IF r.ok /\ laserContinuous THEN LaserSetPower(laser, TRUE)
                                        ELSE [l |-> laser, ev |-> <<>>]
        e == StorageFailure(r.f, r.s, status)
    IN  /\ sd' = r.s
        /\ fs' = IF r.ok THEN r.f ELSE e.f
        /\ SetStatus(IF r.ok THEN Status(hardwareStatus, "SOFTWARE_RUNNING") ELSE e.st)
        /\ SetLaser(l.l)
        /\ trace' = l.ev

\* stopRunning: the data log is closed, the run ends, the laser is off.
StopRunning ==
    LET l == LaserSetPower(laser, FALSE)
    IN  /\ fs' = CloseDataLog(fs)
        /\ SetStatus(Status(hardwareStatus, "SOFTWARE_READY"))
        /\ SetLaser(l.l)
        /\ trace' = l.ev
        /\ UNCHANGED sd

\* reset: the camera is forced off, the laser is turned off, the data log
\* is closed and the statuses are derived again from the peripherals.
Reset(f, s) ==
    LET c  == CameraSetPower(cam, FALSE, TRUE)
        l  == LaserSetPower(laser, FALSE)
        f1 == FsInit(CloseDataLog(f), s)
    IN  /\ SetCam(c.c)
        /\ SetLaser(l.l)
        /\ trace' = c.ev \o l.ev
        /\ fs' = f1
        /\ sd' = s
        /\ SetStatus(DeriveStatus(f1, peripherals))
        /\ cameraStatus' = "CAMERA_OFF"


----------------------------------------------------------------------------
(* The control loop: setup, then serial commands, the switch and the       *)
(* periodic tick, one handler at a time.                                   *)

\* A message on the serial line saying that a command is refused in the
\* present status.
Said(text) == <<"serial", text, 0>>

FsBoot ==
    [initialized |-> FALSE, localErrorCode |-> "FS_ERROR_UNINITIALIZED",
     cardErrorCode |-> "SD_CARD_ERROR_INIT_NOT_CALLED", logFile |-> NoFile,
     numberOfDataLogEntries |-> 0]

\* A card without data logs and settings, as format leaves it.
EmptyCard(present) ==
    [present |-> present, full |-> FALSE, data |-> [i \in LogNumbers |-> AbsentFile],
     settings |-> NoTextFile, status |-> FreshStatusLog]

\* A call of a driver or of snapAndLog with its arguments and the presumed
\* and physical states it started from.
DrvCall(op, a, b) ==
    [op |-> op, a |-> a, b |-> b, camOn |-> camPowerStatus, camRelay |-> camRelay,
     laserOn |-> laserPowerStatus]

NoCall == [op |-> "none", a |-> 0, b |-> 0, camOn |-> FALSE, camRelay |-> FALSE,
           laserOn |-> FALSE]

\* Power-up, before setup() has run, with one of the given cards in the slot.
Boot(cards, found) ==
    /\ camPowerStatus = FALSE
    /\ camRelay = FALSE
    /\ intensifier = FALSE
    /\ laserPowerStatus = FALSE
    /\ laserPin = LOW
    /\ trace = <<>>
    /\ call = NoCall
    /\ hardwareStatus = "HARDWARE_BOOTING"
    /\ softwareStatus = "SOFTWARE_BOOTING"
    /\ cameraStatus = "CAMERA_OFF"
    /\ frameInterval = DEFAULT_FRAME_INTERVAL
    /\ burstSize = DEFAULT_BURST_SIZE
    /\ laserContinuous = DEFAULT_LASER_CONTINUOUS
    /\ fs = FsBoot
    /\ sd \in cards
    /\ peripherals \in found
    /\ AuxIdle

Init == Boot({EmptyCard(TRUE), EmptyCard(FALSE)}, {"ok", "missing"})

\* loop() runs once setup() has returned.
Booted == softwareStatus # "SOFTWARE_BOOTING"

\* setup: the drivers and the file system are initialized, the saved
\* settings are loaded and the statuses are derived.
Setup ==
    /\ ~Booted
    /\ LET c  == CameraInit(cam)
           l  == LaserInit(laser)
           f1 == FsInit(fs, sd)
           v  == LoadSettings(f1, sd, settings)
       IN  /\ SetCam(c.c)
           /\ SetLaser(l.l)
           /\ trace' = c.ev \o l.ev
           /\ fs' = f1
           /\ SetSettings(v.v)
           /\ SetStatus(DeriveStatus(f1, peripherals))
    /\ call' = NoCall
    /\ UNCHANGED <<cameraStatus, sd, peripherals, auxVars>>

\* help, date, version, hwinfo, sensors, status: they print and change nothing.
CmdInfo ==
    /\ Booted
    /\ trace' = <<>>
    /\ call' = NoCall
    /\ UNCHANGED <<camVars, laserVars, ctlVars, fsVars>>

\* test lights | laser.
CmdTest ==
    /\ Booted
    /\ \E arg \in {"lights", "laser"} :
        LET l == IF arg = "laser" THEN LaserTestCycle(laser)
                                  ELSE [l |-> laser, ev |-> <<>>]
        IN  /\ SetLaser(l.l)
            /\ trace' = l.ev
    /\ call' = NoCall
    /\ UNCHANGED <<camVars, ctlVars, fsVars>>

\* interval [N], N among args.
Interval(args) ==
    /\ Booted
    /\ \E arg \in args :
        LET r == IF arg = Empty
                 THEN [ok |-> TRUE, f |-> fs, s |-> sd, v |-> settings]
                 ELSE SetFrameInterval(fs, sd, settings, U32(Atoi(arg)))
        IN  /\ SetSettings(r.v)
            /\ fs' = r.f
            /\ sd' = r.s
            /\ trace' = <<>>
    /\ call' = NoCall
    /\ UNCHANGED <<camVars, laserVars, hardwareStatus, softwareStatus,
                   cameraStatus, peripherals, auxVars>>

\* lasermode [normal | continuous].
CmdLasermode ==
    /\ Booted
    /\ \E arg \in {"", "normal", "continuous"} :
        LET refused == arg # "" /\ softwareStatus = "SOFTWARE_RUNNING"
            r == IF arg = "" \/ refused
                 THEN [ok |-> TRUE, f |-> fs, s |-> sd, v |-> settings]
                 ELSE SetLaserContinuous(fs, sd, settings, arg = "continuous")
        IN  /\ SetSettings(r.v)
            /\ fs' = r.f
            /\ sd' = r.s
            /\ trace' = IF refused
                        THEN <<Said("Cannot change laser mode while imaging is in progress.")>>
                        ELSE <<>>
    /\ call' = NoCall
    /\ UNCHANGED <<camVars, laserVars, hardwareStatus, softwareStatus,
                   cameraStatus, peripherals, auxVars>>

\* burstsize [N], N among args.
Burstsize(args) ==
    /\ Booted
    /\ \E arg \in args :
        LET refused == arg # Empty /\ softwareStatus = "SOFTWARE_RUNNING"
            r == IF arg = Empty \/ refused
                 THEN [ok |-> TRUE, f |-> fs, s |-> sd, v |-> settings]
                 ELSE SetBurstSize(fs, sd, settings, U8(Atoi(arg)))
        IN  /\ SetSettings(r.v)
            /\ fs' = r.f
            /\ sd' = r.s
            /\ trace' = IF refused
                        THEN <<Said("Cannot change burst size while imaging is progress.")>>
                        ELSE <<>>
    /\ call' = NoCall
    /\ UNCHANGED <<camVars, laserVars, hardwareStatus, softwareStatus,
                   cameraStatus, peripherals, auxVars>>

\* The arguments tried where every command is tried: none, a refused one
\* and the default.
IntervalArgs == {Empty, Num(MINIMUM_FRAME_INTERVAL - 1), Num(0)}
BurstArgs == {Empty, Num(DEFAULT_BURST_SIZE)}

CmdInterval == Interval(IntervalArgs)
CmdBurstsize == Burstsize(BurstArgs)

\* camera [on | off | forceoff].
CmdCamera ==
    /\ Booted
    /\ \E arg \in {"", "on", "off", "forceoff"} :
        LET running == arg # "" /\ softwareStatus = "SOFTWARE_RUNNING"
            already == /\ ~running
                       /\ \/ arg = "on" /\ camPowerStatus
                          \/ arg = "off" /\ ~camPowerStatus
            acts == arg # "" /\ ~running /\ ~already
            c    == IF ~acts THEN [c |-> cam, ev |-> <<>>]
                    ELSE IF arg = "on" THEN CameraSetPower(cam, TRUE, FALSE)
                    ELSE IF arg = "off" THEN CameraSetPower(cam, FALSE, FALSE)
                    ELSE CameraSetPower(cam, FALSE, TRUE)
        IN  /\ SetCam(c.c)
            /\ trace' =
                IF running
                THEN <<Said("Cannot change camera on/off while imaging is in progress.")>>
                ELSE IF already THEN <<>>
                ELSE IF arg = "on"
                THEN <<Store("cameraStatus", "CAMERA_BOOTING")>> \o c.ev
                     \o <<Store("cameraStatus", "CAMERA_READY")>>
                ELSE c.ev
            /\ cameraStatus' = IF ~acts THEN cameraStatus
                               ELSE IF arg = "on" THEN "CAMERA_READY" ELSE "CAMERA_OFF"
    /\ call' = NoCall
    /\ UNCHANGED <<laserVars, hardwareStatus, softwareStatus, frameInterval,
                   burstSize, laserContinuous, fsVars>>

\* laser [on | off].
CmdLaser ==
    /\ Booted
    /\ \E arg \in {"", "on", "off"} :
        LET refused == arg # "" /\ softwareStatus = "SOFTWARE_RUNNING"
            l == IF arg # "" /\ ~refused
                 THEN LaserSetPower(laser, arg = "on")
                 ELSE [l |-> laser, ev |-> <<>>]
        IN  /\ SetLaser(l.l)
            /\ trace' = IF refused
                        THEN <<Said("Cannot change laser on/off while imaging is in progress.")>>
                        ELSE l.ev
    /\ call' = NoCall
    /\ UNCHANGED <<camVars, ctlVars, fsVars>>

\* reset.
CmdReset ==
    /\ Booted
    /\ Reset(fs, sd)
    /\ call' = NoCall
    /\ UNCHANGED <<frameInterval, burstSize, laserContinuous, peripherals, auxVars>>

\* Commands::start without its check for errors.
StartRefusalForgetsErrors ==
    IF hardwareStatus = "HARDWARE_BOOTING" \/ softwareStatus = "SOFTWARE_BOOTING"
    THEN "Still booting. Not yet ready."
    ELSE IF softwareStatus = "SOFTWARE_RUNNING"
    THEN "Device is already started and capturing images."
    ELSE ""

\* Commands::start without its check for a run in progress.
StartRefusalForgetsRunning ==
    IF hardwareStatus = "HARDWARE_BOOTING" \/ softwareStatus = "SOFTWARE_BOOTING"
    THEN "Still booting. Not yet ready."
    ELSE IF hardwareStatus = "HARDWARE_ERRORS" \/ softwareStatus = "SOFTWARE_ERRORS"
    THEN "Cannot start due to critical hardware errors."
    ELSE ""

\* The message with which Commands::start refuses, "" when it calls
\* startRunning.
StartRefusal ==
    IF hardwareStatus = "HARDWARE_BOOTING" \/ softwareStatus = "SOFTWARE_BOOTING"
    THEN "Still booting. Not yet ready."
    ELSE IF hardwareStatus = "HARDWARE_ERRORS" \/ softwareStatus = "SOFTWARE_ERRORS"
    THEN "Cannot start due to critical hardware errors."
    ELSE IF softwareStatus = "SOFTWARE_RUNNING"
    THEN "Device is already started and capturing images."
    ELSE ""

\* The message with which Commands::stop refuses, "" when it calls stopRunning.
StopRefusal ==
    IF hardwareStatus = "HARDWARE_BOOTING" \/ softwareStatus = "SOFTWARE_BOOTING"
    THEN "Still booting. Not yet ready."
    ELSE IF softwareStatus # "SOFTWARE_RUNNING"
    THEN "Device is already stopped."
    ELSE ""

\* Commands::snap without its check for errors.
SnapRefusalForgetsErrors ==
    IF hardwareStatus = "HARDWARE_BOOTING" \/ softwareStatus = "SOFTWARE_BOOTING"
    THEN "Still booting. Not yet ready to run."
    ELSE IF softwareStatus = "SOFTWARE_RUNNING"
    THEN "Cannot snap a photo while imaging is in progress."
    ELSE ""

\* The message with which Commands::snap refuses, "" when it calls snapAndLog.
SnapRefusal ==
    IF hardwareStatus = "HARDWARE_BOOTING" \/ softwareStatus = "SOFTWARE_BOOTING"
    THEN "Still booting. Not yet ready to run."
    ELSE IF hardwareStatus = "HARDWARE_ERRORS" \/ softwareStatus = "SOFTWARE_ERRORS"
    THEN "Cannot snap due to critical hardware errors."
    ELSE IF softwareStatus = "SOFTWARE_RUNNING"
    THEN "Cannot snap a photo while imaging is in progress."
    ELSE ""

\* A refused command: the message and nothing else.
Refused(text) ==
    /\ trace' = <<Said(text)>>
    /\ UNCHANGED <<laserVars, hardwareStatus, softwareStatus, fs, sd>>

\* Commands::start.
CmdStart ==
    /\ Booted
    /\ IF StartRefusal = "" THEN StartRunning ELSE Refused(StartRefusal)
    /\ call' = NoCall
    /\ UNCHANGED <<camVars, cameraStatus, frameInterval, burstSize,
                   laserContinuous, peripherals, auxVars>>

\* Commands::stop.
CmdStop ==
    /\ Booted
    /\ IF StopRefusal = "" THEN StopRunning ELSE Refused(StopRefusal)
    /\ call' = NoCall
    /\ UNCHANGED <<camVars, cameraStatus, frameInterval, burstSize,
                   laserContinuous, peripherals, auxVars>>

\* The start/stop switch was pressed: the run is stopped, or started under
\* the entry conditions of start.
SwitchPressed ==
    /\ Booted
    /\ IF softwareStatus = "SOFTWARE_RUNNING" THEN StopRunning
       ELSE IF StartRefusal = "" THEN StartRunning
       ELSE /\ trace' = <<>>
            /\ UNCHANGED <<laserVars, hardwareStatus, softwareStatus, fs, sd>>
    /\ call' = NoCall
    /\ UNCHANGED <<camVars, cameraStatus, frameInterval, burstSize,
                   laserContinuous, peripherals, auxVars>>

Read(name) == <<"read", name, 0>>
Appended(name) == <<"append", name, 0>>

\* snapAndLog(nImages), steps 1 to 7: laser on, the burst with the camera
\* status Shooting, laser off, the sensors, and during a run one row in the
\* data log; a failed write is classified and the software status is Errors.
SnapAndLog(nImages) ==
    LET l1  == IF laserContinuous THEN [l |-> laser, ev |-> <<>>]
                                  ELSE LaserSetPower(laser, TRUE)
        l2  == IF laserContinuous THEN [l |-> l1.l, ev |-> <<>>]
                                  ELSE LaserSetPower(l1.l, FALSE)
        log == softwareStatus = "SOFTWARE_RUNNING"
        r   == WriteDataLog(fs, sd)
        e   == StorageFailure(r.f, r.s, status)
    IN  /\ SetLaser(l2.l)
        /\ trace' = l1.ev
                    \o <<Store("cameraStatus", "CAMERA_SHOOTING")>>
                    \o CameraSnap(cam, Trips(nImages))
                    \o <<Store("cameraStatus", cameraStatus)>>
                    \o l2.ev
                    \o <<Read("inertia"), Read("pressure"), Read("temperature")>>
                    \o (IF log THEN <<Appended(IF r.ok THEN "row" ELSE "failed")>>
                               ELSE <<>>)
        /\ sd' = IF log THEN r.s ELSE sd
        /\ fs' = IF ~log THEN fs ELSE IF r.ok THEN r.f ELSE e.f
        /\ SetStatus(IF log /\ ~r.ok THEN e.st ELSE status)

\* snap [N] of dispatch and Commands::snap(nImages), N among args: nImages
\* is 16 bits wide in Commands::snap and 8 bits wide in snapAndLog. The call
\* is recorded with the number that snapAndLog receives and the number that
\* the message reports.
Snap(args) ==
    /\ Booted
    /\ \E arg \in args :
        LET nImages == IF arg = Empty THEN burstSize
                       ELSE IF U16(Atoi(arg)) <= 1 THEN 1
                       ELSE U16(Atoi(arg))
        IN  IF SnapRefusal = ""
            THEN /\ SnapAndLog(U8(nImages))
                 /\ call' = DrvCall("snapAndLog", U8(nImages), nImages)
            ELSE Refused(SnapRefusal) /\ call' = NoCall
    /\ UNCHANGED <<camVars, cameraStatus, frameInterval, burstSize,
                   laserContinuous, peripherals, auxVars>>

\* The arguments of snap tried where every command is tried.
SnapArgs == {Empty, Num(MaxBurst)}

CmdSnap == Snap(SnapArgs)

\* cat and ls, and like ls: du, head, rm, tail. On failure the message and
\* updateStatus.
CmdFile ==
    /\ Booted
    /\ \E name \in {"cat", "ls"}, goodPath \in BOOLEAN :
        LET r == FileCommand(fs, sd, name, goodPath)
            u == IF r.ok THEN [f |-> r.f, st |-> status]
                         ELSE UpdateStatus(r.f, sd, status)
        IN  /\ fs' = u.f
            /\ SetStatus(u.st)
            /\ trace' = <<>>
    /\ call' = NoCall
    /\ UNCHANGED <<camVars, laserVars, cameraStatus, frameInterval, burstSize,
                   laserContinuous, sd, peripherals, auxVars>>

\* The line typed at "Are you sure (y|n)?", as Serial.readBytesUntil stores it.
FormatAnswers == {<<>>, <<"y">>, <<"Y", "e", "s">>, <<"n">>, <<" ", "y">>, <<"N", "y">>}

\* format that takes any line that is not empty for a yes.
FormatCommandAnyAnswer(answers) ==
    /\ Booted
    /\ \E answer \in answers :
        IF softwareStatus = "SOFTWARE_RUNNING"
        THEN /\ trace' = <<Said("Cannot format SD card while imaging is in progress.")>>
             /\ call' = NoCall
             /\ UNCHANGED <<camVars, laserVars, hardwareStatus, softwareStatus,
                            cameraStatus, fs, sd>>
        ELSE IF Len(answer) > 0
        THEN LET r == Format(fs, sd, TRUE)
             IN  /\ Reset(r.f, r.s)
                 /\ call' = DrvCall("FileSystem::format", B2N(r.ok), 0)
        ELSE /\ trace' = <<>>
             /\ call' = NoCall
             /\ UNCHANGED <<camVars, laserVars, hardwareStatus, softwareStatus,
                            cameraStatus, fs, sd>>
    /\ UNCHANGED <<frameInterval, burstSize, laserContinuous, peripherals, auxVars>>

\* format of dispatch, answered with one of the lines: refused during a run,
\* canceled unless the line starts with y or Y, else FileSystem::format and
\* reset. The call of FileSystem::format is recorded.
FormatCommand(answers) ==
    /\ Booted
    /\ \E answer \in answers :
        IF softwareStatus = "SOFTWARE_RUNNING"
        THEN /\ trace' = <<Said("Cannot format SD card while imaging is in progress.")>>
             /\ call' = NoCall
             /\ UNCHANGED <<camVars, laserVars, hardwareStatus, softwareStatus,
                            cameraStatus, fs, sd>>
        ELSE IF Len(answer) > 0 /\ (answer[1] = "y" \/ answer[1] = "Y")
        THEN LET r == Format(fs, sd, TRUE)
             IN  /\ Reset(r.f, r.s)
                 /\ call' = DrvCall("FileSystem::format", B2N(r.ok), 0)
        ELSE /\ trace' = <<>>
             /\ call' = NoCall
             /\ UNCHANGED <<camVars, laserVars, hardwareStatus, softwareStatus,
                            cameraStatus, fs, sd>>
    /\ UNCHANGED <<frameInterval, burstSize, laserContinuous, peripherals, auxVars>>

CmdFormat == FormatCommand(FormatAnswers)

\* The cap on the rows of one data log.
MaxEntries == 1

\* The periodic tick of a run: snapAndLog(burstSize).
Tick ==
    /\ softwareStatus = "SOFTWARE_RUNNING"
    /\ fs.numberOfDataLogEntries < MaxEntries
    /\ SnapAndLog(burstSize)
    /\ call' = DrvCall("snapAndLog", burstSize, 0)
    /\ UNCHANGED <<camVars, cameraStatus, frameInterval, burstSize,
                   laserContinuous, peripherals, auxVars>>

----------------------------------------------------------------------------
(* The SD card between two handlers: pulled, put back, filled up.          *)

CardRemoved ==
    /\ Booted
    /\ sd.present
    /\ sd' = [sd EXCEPT !.present = FALSE]
    /\ trace' = <<>>
    /\ call' = NoCall
    /\ UNCHANGED <<camVars, laserVars, ctlVars, fs, peripherals, auxVars>>

CardInserted ==
    /\ Booted
    /\ ~sd.present
    /\ sd' = [sd EXCEPT !.present = TRUE]
    /\ trace' = <<>>
    /\ call' = NoCall
    /\ UNCHANGED <<camVars, laserVars, ctlVars, fs, peripherals, auxVars>>

CardFull ==
    /\ Booted
    /\ sd.present /\ ~sd.full
    /\ sd' = [sd EXCEPT !.full = TRUE]
    /\ trace' = <<>>
    /\ call' = NoCall
    /\ UNCHANGED <<camVars, laserVars, ctlVars, fs, peripherals, auxVars>>

Next ==
    \/ Setup
    \/ CmdInfo
    \/ CmdTest
    \/ CmdInterval
    \/ CmdLasermode
    \/ CmdBurstsize
    \/ CmdCamera
    \/ CmdLaser
    \/ CmdReset
    \/ CmdStart
    \/ CmdStop
    \/ CmdSnap
    \/ CmdFile
    \/ CmdFormat
    \/ SwitchPressed
    \/ Tick
    \/ CardRemoved
    \/ CardInserted
    \/ CardFull

Spec == Init /\ [][Next]_vars

----------------------------------------------------------------------------
(* The settings: every kind of argument, and a settings file written on    *)
(* another computer before power-up.                                       *)

AnyIntervalArgs == {Empty, Word, Num(-1), Num(0), Num(1),
                    Num(MINIMUM_FRAME_INTERVAL - 1), Num(MINIMUM_FRAME_INTERVAL)}
AnyBurstArgs == {Empty} \cup {Num(n) : n \in 0..MaxBurst}

CmdIntervalAny == Interval(AnyIntervalArgs)
CmdBurstsizeAny == Burstsize(AnyBurstArgs)

SettingsFiles ==
    {NoTextFile, TextFile(SavedText(Settings(MINIMUM_FRAME_INTERVAL, TRUE, MaxBurst)))}
    \cup {TextFile(SettingsLine(IntervalName, value)) :
            value \in {<<"x">>, Decimal(0), Decimal(MINIMUM_FRAME_INTERVAL - 1)}}

InitSettings ==
    Boot({[EmptyCard(TRUE) EXCEPT !.settings = file] : file \in SettingsFiles}, {"ok"})

NextSettings ==
    \/ Setup
    \/ CmdIntervalAny
    \/ CmdBurstsizeAny
    \/ CmdLasermode
    \/ CmdStart
    \/ CmdStop

SpecSettings == InitSettings /\ [][NextSettings]_vars

----------------------------------------------------------------------------
(* The cycle: every burst size, with the camera and the laser switched by  *)
(* hand between the cycles.                                                *)

TypedImages == {-1, 256} \cup 0..MaxBurst
AnySnapArgs == {Empty} \cup {Num(n) : n \in TypedImages}

CmdSnapAny == Snap(AnySnapArgs)

InitCycle == Boot({EmptyCard(TRUE)}, {"ok"})

NextCycle ==
    \/ Setup
    \/ CmdCamera
    \/ CmdLaser
    \/ CmdLasermode
    \/ CmdBurstsizeAny
    \/ CmdStart
    \/ CmdStop
    \/ CmdSnapAny
    \/ Tick

SpecCycle == InitCycle /\ [][NextCycle]_vars

----------------------------------------------------------------------------
(* The format command among the commands that start and stop a run and     *)
(* that put files on the card.                                             *)

NextErase ==
    \/ Setup
    \/ CmdLasermode
    \/ CmdStart
    \/ CmdStop
    \/ Tick
    \/ CmdFormat
    \/ CardRemoved
    \/ CardInserted

SpecErase == InitCycle /\ [][NextErase]_vars

----------------------------------------------------------------------------
(* The drivers called directly, with every argument.                       *)

DrvInit ==
    /\ camPowerStatus = FALSE
    /\ camRelay \in BOOLEAN
    /\ intensifier \in BOOLEAN
    /\ laserPowerStatus = FALSE
    /\ laserPin = LOW
    /\ trace = <<>>
    /\ call = NoCall
    /\ hardwareStatus = "HARDWARE_READY"
    /\ softwareStatus = "SOFTWARE_READY"
    /\ cameraStatus = "CAMERA_OFF"
    /\ frameInterval = DEFAULT_FRAME_INTERVAL
    /\ burstSize = DEFAULT_BURST_SIZE
    /\ laserContinuous = DEFAULT_LASER_CONTINUOUS
    /\ fs = FsBoot
    /\ sd = EmptyCard(TRUE)
    /\ peripherals = "ok"
    /\ AuxIdle

DrvCameraInit ==
    LET r == CameraInit(cam)
    IN  /\ SetCam(r.c)
        /\ trace' = r.ev
        /\ call' = DrvCall("Camera::init", 0, 0)
        /\ UNCHANGED <<laserVars, ctlVars, fsVars>>

DrvCameraSetPower ==
    \E onOff \in BOOLEAN, force \in BOOLEAN :
        LET r == CameraSetPower(cam, onOff, force)
        IN  /\ SetCam(r.c)
            /\ trace' = r.ev
            /\ call' = DrvCall("Camera::setPower", B2N(onOff), B2N(force))
            /\ UNCHANGED <<laserVars, ctlVars, fsVars>>

\* The burst sizes handed to Camera::snap: small ones and the largest.
SnapCounts == 0..MaxBurst \cup {255}

DrvCameraSnap ==
    \E n \in SnapCounts :
        /\ trace' = CameraSnap(cam, n)
        /\ call' = DrvCall("Camera::snap", n, 0)
        /\ UNCHANGED <<camVars, laserVars, ctlVars, fsVars>>

DrvLaserSetPower ==
    \E onOff \in BOOLEAN :
        LET r == LaserSetPower(laser, onOff)
        IN  /\ SetLaser(r.l)
            /\ trace' = r.ev
            /\ call' = DrvCall("Laser::setPower", B2N(onOff), 0)
            /\ UNCHANGED <<camVars, ctlVars, fsVars>>

DrvLaserTestCycle ==
    LET r == LaserTestCycle(laser)
    IN  /\ SetLaser(r.l)
        /\ trace' = r.ev
        /\ call' = DrvCall("Laser::testCycle", 0, 0)
        /\ UNCHANGED <<camVars, ctlVars, fsVars>>

DrvLaserInit ==
    LET r == LaserInit(laser)
    IN  /\ SetLaser(r.l)
        /\ trace' = r.ev
        /\ call' = DrvCall("Laser::init", 0, 0)
        /\ UNCHANGED <<camVars, ctlVars, fsVars>>

\* Somebody presses the camera's own power button: the software is not told.
DrvManualToggle ==
    /\ camRelay' = ~camRelay
    /\ trace' = <<>>
    /\ call' = DrvCall("manual", 0, 0)
    /\ UNCHANGED <<camPowerStatus, intensifier, laserVars, ctlVars, fsVars>>

DrvNext ==
    \/ DrvCameraInit
    \/ DrvCameraSetPower
    \/ DrvCameraSnap
    \/ DrvLaserSetPower
    \/ DrvLaserTestCycle
    \/ DrvLaserInit
    \/ DrvManualToggle

SpecDrivers == DrvInit /\ [][DrvNext]_vars

----------------------------------------------------------------------------
(* The FileSystem class called directly, on cards that hold earlier data   *)
(* logs and settings files.                                                *)

\* The number of data log names of a card of this specification.
MaxPool == 3

\* The settings that are saved, and what the arguments of loadSettings may
\* hold when it is called.
SavedIntervals == {MINIMUM_FRAME_INTERVAL, DEFAULT_FRAME_INTERVAL, U32(-1)}
SavedBursts == {DEFAULT_BURST_SIZE, U8(-1)}
SomeSettings ==
    {Settings(i, c, b) : i \in SavedIntervals, c \in BOOLEAN, b \in SavedBursts}
StaleSettings == {Settings(0, FALSE, 0), Settings(1, TRUE, MaxBurst)}

\* SETTINGS.TXT before the first call: none, one that was saved, one that
\* somebody edited.
EarlierSettings ==
    {NoTextFile,
     TextFile(SavedText(Settings(DEFAULT_FRAME_INTERVAL, FALSE, DEFAULT_BURST_SIZE))),
     TextFile(SavedText(Settings(DEFAULT_FRAME_INTERVAL, TRUE, U8(-1)))
              \o SettingsLine(BurstsizeName, Decimal(MaxBurst)))}

EarlierLogs == {AbsentFile, File(<<HeaderLine>>), File(<<HeaderLine, RowLine>>)}

\* The class before init, with one of the given cards in the slot.
FsDrvBoot(cards) ==
    /\ camPowerStatus = FALSE
    /\ camRelay = FALSE
    /\ intensifier = FALSE
    /\ laserPowerStatus = FALSE
    /\ laserPin = LOW
    /\ trace = <<>>
    /\ call = NoCall
    /\ hardwareStatus = "HARDWARE_READY"
    /\ softwareStatus = "SOFTWARE_READY"
    /\ cameraStatus = "CAMERA_OFF"
    /\ frameInterval = DEFAULT_FRAME_INTERVAL
    /\ burstSize = DEFAULT_BURST_SIZE
    /\ laserContinuous = DEFAULT_LASER_CONTINUOUS
    /\ fs = FsBoot
    /\ sd \in cards
    /\ peripherals = "ok"
    /\ AuxIdle

\* Cards that hold earlier data logs under some of the MaxPool names.
UsedCards ==
    {[present |-> TRUE, full |-> FALSE, data |-> data, settings |-> NoTextFile,
      status |-> NoStatusLog] :
        data \in [0..(MaxPool - 1) -> EarlierLogs]}

\* Cards that hold an earlier SETTINGS.TXT.
SetCards == {[EmptyCard(TRUE) EXCEPT !.settings = text] : text \in EarlierSettings}

\* One call of a method of FileSystem: the fields and the card after it,
\* whether it returned true, and the number of entries before it.
FsCalled(op, r) ==
    /\ fs' = r.f
    /\ sd' = r.s
    /\ trace' = <<>>
    /\ call' = DrvCall(op, B2N(r.ok), fs.numberOfDataLogEntries)

FsDrvFsInit ==
    /\ FsCalled("init", [ok |-> FsInit(fs, sd).initialized, f |-> FsInit(fs, sd),
                         s |-> sd])
    /\ UNCHANGED <<camVars, laserVars, ctlVars, peripherals, auxVars>>

FsDrvNewDataLog ==
    /\ FsCalled("newDataLog", NewDataLog(fs, sd))
    /\ UNCHANGED <<camVars, laserVars, ctlVars, peripherals, auxVars>>

FsDrvWriteDataLog ==
    /\ fs.numberOfDataLogEntries < MaxEntries \/ ~WriteSucceeds(sd)
    /\ FsCalled("writeDataLog", WriteDataLog(fs, sd))
    /\ UNCHANGED <<camVars, laserVars, ctlVars, peripherals, auxVars>>

FsDrvCloseDataLog ==
    /\ FsCalled("closeDataLog", [ok |-> TRUE, f |-> CloseDataLog(fs), s |-> sd])
    /\ UNCHANGED <<camVars, laserVars, ctlVars, peripherals, auxVars>>

\* saveSettings(interval, isLaserContinuous, burstSize) with one of the
\* given settings, which the caller holds from then on.
SaveFrom(held) ==
    /\ \E v \in held :
        /\ SetSettings(v)
        /\ FsCalled("saveSettings", SaveSettings(fs, sd, v))
    /\ UNCHANGED <<camVars, laserVars, hardwareStatus, softwareStatus,
                   cameraStatus, peripherals, auxVars>>

FsDrvSaveSettings == SaveFrom(SomeSettings)

\* loadSettings into three variables that hold one of the given values.
LoadInto(held) ==
    /\ \E v \in held :
        LET r == LoadSettings(fs, sd, v)
        IN  /\ SetSettings(r.v)
            /\ FsCalled("loadSettings", [ok |-> r.ok, f |-> fs, s |-> sd])
    /\ UNCHANGED <<camVars, laserVars, hardwareStatus, softwareStatus,
                   cameraStatus, peripherals, auxVars>>

\* loadSettings into three variables that hold anything.
FsDrvLoadSettings == LoadInto(StaleSettings)

FsDrvLogsInit == FsDrvBoot(UsedCards)

FsDrvLogsNext ==
    \/ FsDrvFsInit
    \/ FsDrvNewDataLog
    \/ FsDrvWriteDataLog
    \/ FsDrvCloseDataLog
    \/ CardRemoved
    \/ CardInserted
    \/ CardFull

SpecLogs == FsDrvLogsInit /\ [][FsDrvLogsNext]_vars

FsDrvSettingsInit == FsDrvBoot(SetCards)

FsDrvSettingsNext ==
    \/ FsDrvFsInit
    \/ FsDrvSaveSettings
    \/ FsDrvLoadSettings
    \/ CardRemoved
    \/ CardInserted
    \/ CardFull

SpecSaved == FsDrvSettingsInit /\ [][FsDrvSettingsNext]_vars

\* SETTINGS.TXT as somebody may have written it: as saved, with an empty
\* line, a line with spaces only, a name without a value and a name that is
\* not a setting before other lines, a name twice, one name only, empty.
BlankLine == <<" ">> \o CRLF
OtherLine == SettingsLine(<<"f", "o", "o">>, Decimal(1))
EditedSettings ==
    {SavedText(Settings(MINIMUM_FRAME_INTERVAL, TRUE, MaxBurst)),
     SettingsLine(IntervalName, Decimal(MINIMUM_FRAME_INTERVAL)) \o CRLF
         \o SettingsLine(BurstsizeName, Decimal(MaxBurst)),
     BlankLine \o SettingsLine(BurstsizeName, Decimal(MaxBurst)),
     OtherLine \o IntervalName \o CRLF \o SettingsLine(BurstsizeName, Decimal(MaxBurst)),
     SettingsLine(BurstsizeName, Decimal(MaxBurst + 1))
         \o SettingsLine(BurstsizeName, Decimal(MaxBurst)),
     SettingsLine(LasercontinuousName, Decimal(1)),
     <<>>}

LoadCards ==
    {[EmptyCard(TRUE) EXCEPT !.settings = TextFile(bytes)] : bytes \in EditedSettings}

FsDrvLoadInit == FsDrvBoot(LoadCards)

FsDrvLoadNext ==
    \/ FsDrvFsInit
    \/ FsDrvLoadSettings
    \/ CardRemoved
    \/ CardInserted

SpecLoad == FsDrvLoadInit /\ [][FsDrvLoadNext]_vars

\* The cap on the messages of STATUS.TXT.
MaxStatus == 4

\* Cards for format: with and without a status log and an earlier data log.
FormatCards ==
    {[EmptyCard(TRUE) EXCEPT !.data = [n \in Numbers(EmptyCard(TRUE)) |-> log],
                             !.status = earlier] :
        log \in {AbsentFile, File(<<HeaderLine>>)},
        earlier \in {NoStatusLog, FreshStatusLog}}

\* format(), with sd.format succeeding or failing on the card in the slot;
\* the call is recorded with what it returned and what sd.format returned.
FsDrvFormat ==
    /\ Len(sd.status.lines) < MaxStatus
    /\ \E formats \in BOOLEAN :
        LET r == Format(fs, sd, formats)
        IN  /\ fs' = r.f
            /\ sd' = r.s
            /\ trace' = <<>>
            /\ call' = DrvCall("format", B2N(r.ok), B2N(sd.present /\ formats))
    /\ UNCHANGED <<camVars, laserVars, ctlVars, peripherals, auxVars>>

FsDrvFormatInit == FsDrvBoot(FormatCards)

FsDrvFormatNext ==
    \/ FsDrvFsInit
    \/ FsDrvNewDataLog
    \/ FsDrvCloseDataLog
    \/ FsDrvFormat
    \/ CardRemoved
    \/ CardInserted
    \/ CardFull

SpecFormat == FsDrvFormatInit /\ [][FsDrvFormatNext]_vars

----------------------------------------------------------------------------
(* The Switches and Sensors classes called directly.                       *)

\* The rest of the device while one class is exercised.
Bench ==
    /\ camPowerStatus = FALSE
    /\ camRelay = FALSE
    /\ intensifier = FALSE
    /\ laserPowerStatus = FALSE
    /\ laserPin = LOW
    /\ trace = <<>>
    /\ call = NoCall
    /\ hardwareStatus = "HARDWARE_READY"
    /\ softwareStatus = "SOFTWARE_READY"
    /\ cameraStatus = "CAMERA_OFF"
    /\ frameInterval = DEFAULT_FRAME_INTERVAL
    /\ burstSize = DEFAULT_BURST_SIZE
    /\ laserContinuous = DEFAULT_LASER_CONTINUOUS
    /\ fs = FsBoot
    /\ sd = EmptyCard(TRUE)
    /\ peripherals = "ok"
    /\ pc = "loop"

\* The clock runs for at most MaxTicks half debounce periods, and at most
\* MaxReturns presses are reported. switchPin.seen holds the readings that
\* update() got half a period ago and the ones it got since the last tick.
MaxTicks == 6
MaxReturns == 3
HalfPeriod == SWITCH_DEBOUNCE_PERIOD \div 2

SwInit ==
    /\ Bench
    /\ SensorsIdle
    /\ ProbesIdle
    /\ \E level \in {SWITCH_DOWN, SWITCH_UP} :
        /\ switchPin = SwitchPinAt(level)
        /\ switches = SwitchesInit(level)

\* Time passes.
SwTick ==
    /\ switchPin.millis < MaxTicks * HalfPeriod
    /\ switchPin' = [switchPin EXCEPT !.millis = @ + HalfPeriod,
                                      !.seen = <<@[2], {}>>]
    /\ call' = NoCall
    /\ UNCHANGED <<camVars, laserVars, ctlVars, fs, sd, peripherals, trace, switches,
                   sensors, readings, probes, pc>>

\* The raw reading of the pin changes: the magnet comes or goes, or the
\* contact bounces.
SwToggle ==
    /\ switchPin' = [switchPin EXCEPT !.level = SWITCH_UP + SWITCH_DOWN - @]
    /\ call' = NoCall
    /\ UNCHANGED <<camVars, laserVars, ctlVars, fs, sd, peripherals, trace, switches,
                   sensors, readings, probes, pc>>

\* Switches::update(). A debounced press is counted when the steady state
\* goes from down to up.
SwUpdate ==
    /\ switches.count < MaxReturns
    /\ switches' = SwitchesUpdate(switches, switchPin.level, switchPin.millis)
    /\ switchPin' =
        [switchPin EXCEPT
            !.presses = @ + B2N(switches.lastSteadyState = SWITCH_DOWN
                                /\ switches'.lastSteadyState = SWITCH_UP),
            !.last = FALSE,
            !.seen[2] = @ \cup {switchPin.level}]
    /\ call' = DrvCall("Switches::update", 0, 0)
    /\ UNCHANGED <<camVars, laserVars, ctlVars, fs, sd, peripherals, trace,
                   sensors, readings, probes, pc>>

\* Switches::isStartStopPressed().
SwIsStartStopPressed ==
    /\ switchPin.returned < MaxReturns
    /\ LET r == IsStartStopPressed(switches)
       IN  /\ switches' = r.w
           /\ switchPin' = [switchPin EXCEPT !.returned = @ + B2N(r.ok),
                                             !.twice = @ \/ (r.ok /\ switchPin.last),
                                             !.last = r.ok]
           /\ call' = DrvCall("Switches::isStartStopPressed", B2N(r.ok), 0)
    /\ UNCHANGED <<camVars, laserVars, ctlVars, fs, sd, peripherals, trace,
                   sensors, readings, probes, pc>>

SwNext ==
    \/ SwTick
    \/ SwToggle
    \/ SwUpdate
    \/ SwIsStartStopPressed

SpecSwitches == SwInit /\ [][SwNext]_vars

\* What the variables of a caller may hold before a call, and what the
\* sensors may measure.
Stale == {0, 7}
Vectors == {Zero3, <<1, 2, 3>>}
RawTemperatures == {-440, 0}
Pressures == {0, 1013}
WaterTemperatures == {BAD_WATER_TEMPERATURE - 1, BAD_WATER_TEMPERATURE, 0, 4}

SnInit ==
    /\ Bench
    /\ SwitchesIdle
    /\ ProbesIdle
    /\ sensors \in SUBSET SensorNames
    /\ readings \in {Outputs(v) : v \in Stale}

\* The caller's variables are new ones.
SnLocals ==
    /\ readings' \in {Outputs(v) : v \in Stale}
    /\ call' = DrvCall("locals", 0, 0)
    /\ UNCHANGED <<camVars, laserVars, ctlVars, fs, sd, peripherals, trace,
                   switches, switchPin, sensors, probes, pc>>

SnGetInertia ==
    /\ \E a \in Vectors, t \in RawTemperatures :
        readings' = GetInertia(sensors, readings,
                               [a |-> a, m |-> a, g |-> a, t |-> t])
    /\ call' = DrvCall("Sensors::getInertia", 0, 0)
    /\ UNCHANGED <<camVars, laserVars, ctlVars, fs, sd, peripherals, trace,
                   switches, switchPin, sensors, probes, pc>>

SnGetWaterPressure ==
    /\ \E p \in Pressures, d \in Pressures :
        readings' = GetWaterPressure(sensors, readings, p, d)
    /\ call' = DrvCall("Sensors::getWaterPressure", 0, 0)
    /\ UNCHANGED <<camVars, laserVars, ctlVars, fs, sd, peripherals, trace,
                   switches, switchPin, sensors, probes, pc>>

SnGetWaterTemperature ==
    /\ \E temperature \in WaterTemperatures :
        readings' = GetWaterTemperature(sensors, readings, temperature)
    /\ call' = DrvCall("Sensors::getWaterTemperature", 0, 0)
    /\ UNCHANGED <<camVars, laserVars, ctlVars, fs, sd, peripherals, trace,
                   switches, switchPin, sensors, probes, pc>>

SnNext ==
    \/ SnLocals
    \/ SnGetInertia
    \/ SnGetWaterPressure
    \/ SnGetWaterTemperature

SpecSensors == SnInit /\ [][SnNext]_vars

----------------------------------------------------------------------------
(* C1: Camera::setPower(onOff, force) pulses the camera power toggle line  *)
(* exactly once when force is true or the presumed state differs from      *)
(* onOff, and not at all otherwise; when it pulses it also pulses the      *)
(* intensifier set line (onOff true) or unset line (onOff false) exactly   *)
(* once and isPowerOn() equals onOff afterwards; when it does not pulse no *)
(* pin is driven and isPowerOn() is unchanged.                             *)
C1_SetPowerTruthTable ==
    call.op = "Camera::setPower" =>
        LET onOff  == call.a = 1
            force  == call.b = 1
            acts   == force \/ call.camOn # onOff
        IN  /\ Pulses(trace, "CAMERA_POWER_SET_PIN") = (IF acts THEN 1 ELSE 0)
            /\ acts =>
                /\ Pulses(trace, "INTENSIFIER_POWER_SET_PIN") = (IF onOff THEN 1 ELSE 0)
                /\ Pulses(trace, "INTENSIFIER_POWER_UNSET_PIN") = (IF onOff THEN 0 ELSE 1)
                /\ camPowerStatus = onOff
                /\ camRelay = ~call.camRelay
            /\ ~acts =>
                /\ PinEvents(trace) = {}
                /\ camPowerStatus = call.camOn
                /\ camRelay = call.camRelay

\* A forced call that found the camera already presumed in the asked state.
C1_Witness ==
    /\ call.op = "Camera::setPower"
    /\ call.b = 1
    /\ call.camOn = (call.a = 1)
    /\ Pulses(trace, "CAMERA_POWER_SET_PIN") = 1


----------------------------------------------------------------------------
(* Claims about the commands, checked under Spec.                          *)

Rejecting == {"HARDWARE_BOOTING", "HARDWARE_ERRORS", "SOFTWARE_BOOTING", "SOFTWARE_ERRORS"}

\* C2: when the hardware or the software status is Booting or Errors, start
\* does not call startRunning: the statuses, the camera status, the data log
\* (open or not, its counter, the files on the card) and the power states of
\* the actuators are as before, and no pin is written.
C2_StartRejected ==
    [][(CmdStart /\ (hardwareStatus \in Rejecting \/ softwareStatus \in Rejecting))
        => /\ UNCHANGED <<hardwareStatus, softwareStatus, cameraStatus, camVars,
                          laserVars, sd>>
           /\ fs'.logFile = fs.logFile
           /\ fs'.numberOfDataLogEntries = fs.numberOfDataLogEntries
           /\ PinEvents(trace') = {}]_vars

C2_Witness ==
    /\ trace = <<Said("Cannot start due to critical hardware errors.")>>
    /\ softwareStatus = "SOFTWARE_ERRORS"

\* The serial commands other than stop and reset.
OtherCommand ==
    \/ CmdInfo
    \/ CmdTest
    \/ CmdInterval
    \/ CmdLasermode
    \/ CmdBurstsize
    \/ CmdCamera
    \/ CmdLaser
    \/ CmdStart
    \/ CmdSnap
    \/ CmdFile
    \/ CmdFormat

\* C3: while the software status is Running, no serial command other than
\* stop and reset changes the presumed power state of the camera, the
\* intensifier or the laser, or writes one of their power or shutter pins.
C3_NoActuatorCommandWhileRunning ==
    [][(softwareStatus = "SOFTWARE_RUNNING" /\ OtherCommand)
        => /\ UNCHANGED <<camPowerStatus, laserPowerStatus>>
           /\ PinEvents(trace') = {}]_vars

\* reset() runs: the reset command, and format once it is confirmed (reset
\* forces the camera off, so it writes the camera's relays).
ResetInvoked == CmdReset \/ (CmdFormat /\ PinEvents(trace') # {})

\* A snap-and-log cycle of a run has just ended with this outcome of
\* writeDataLog.
CycleLogged(outcome) ==
    call.op = "snapAndLog" /\ CountEv(trace, Appended(outcome)) = 1

\* C5: a cycle of a run whose writeDataLog fails ends with the software
\* status Errors, and while the software status is Errors every step that
\* does not invoke reset() leaves it Errors, pulses no shutter and leaves
\* every data log as it is.
C5_WriteFailureStopsCycles ==
    [][/\ CycleLogged("failed")' => softwareStatus' = "SOFTWARE_ERRORS"
       /\ (softwareStatus = "SOFTWARE_ERRORS" /\ ~ResetInvoked)
            => /\ softwareStatus' = "SOFTWARE_ERRORS"
               /\ Pulses(trace', "CAMERA_SHUTTER_PIN") = 0
               /\ sd'.data = sd.data]_vars

C5_Witness ==
    /\ CycleLogged("failed")
    /\ softwareStatus = "SOFTWARE_ERRORS"
    /\ camPowerStatus

\* C6: once the software status is Errors it is Errors after every command,
\* switch press and card event, until reset() is invoked.
C6_ErrorsIsSticky ==
    [][(softwareStatus = "SOFTWARE_ERRORS" /\ ~ResetInvoked)
        => softwareStatus' = "SOFTWARE_ERRORS"]_vars

C6_Witness ==
    /\ softwareStatus = "SOFTWARE_ERRORS"
    /\ hardwareStatus # "HARDWARE_ERRORS"
    /\ fs.localErrorCode = "FS_ERROR_BAD_PATH"
    /\ sd.present

\* C7: whenever the software status is Running, the hardware status is Ready
\* or Warnings, also after updateStatus has reacted to a failed file command.
C7_RunningImpliesHardwareUsable ==
    softwareStatus = "SOFTWARE_RUNNING"
        => hardwareStatus \in {"HARDWARE_READY", "HARDWARE_WARNINGS"}

C7_Witness ==
    /\ softwareStatus = "SOFTWARE_RUNNING"
    /\ fs.localErrorCode = "FS_ERROR_BAD_PATH"

----------------------------------------------------------------------------
(* Claims about the settings, checked under SpecSettings.                  *)

\* C4: while the software status is Running, interval, burstsize and
\* lasermode leave the frame interval, the burst size, the laser mode and
\* the saved settings file unchanged.
C4_SettingsFrozenWhileRunning ==
    [][(softwareStatus = "SOFTWARE_RUNNING"
            /\ (CmdIntervalAny \/ CmdBurstsizeAny \/ CmdLasermode))
        => /\ UNCHANGED <<frameInterval, burstSize, laserContinuous>>
           /\ sd'.settings = sd.settings]_vars

\* The frame intervals that are neither 0 nor at least the minimum.
TooShort == 1..(MINIMUM_FRAME_INTERVAL - 1)

\* C10: the stored frame interval is never in 1..199, whether it comes from
\* interval N or from the settings file; interval N with N in 1..199 leaves
\* it unchanged, and interval 0 stores the default.
C10_IntervalNeverBelowMinimum ==
    [][/\ frameInterval' \notin TooShort
       /\ Interval({Num(0)}) => frameInterval' = DEFAULT_FRAME_INTERVAL
       /\ \A n \in {1, MINIMUM_FRAME_INTERVAL - 1} :
            Interval({Num(n)}) => frameInterval' = frameInterval]_vars

----------------------------------------------------------------------------
(* Claims about one snap-and-log cycle, checked under SpecCycle.           *)

\* The event at place i of a trace is e.
IsEvent(tr, i, e) ==
    /\ i \in 1..Len(tr)
    /\ tr[i][1] = e[1]
    /\ tr[i][2] = e[2]
    /\ tr[i][3] = e[3]

\* A cycle with the laser in normal mode and the camera presumed on has
\* just ended, of a burst of at least one image.
BurstCycle ==
    /\ call.op = "snapAndLog"
    /\ ~laserContinuous
    /\ call.camOn
    /\ call.a >= 1

\* The events of a cycle of n images: n shutter pulses; the laser driven on
\* once, its warm-up over before the first pulse; the laser driven off once,
\* after the last recovery delay and before the sensors; the camera status
\* Shooting from right before the first pulse to right after the last
\* recovery delay.
BurstShape(tr, n) ==
    LET shutter  == Places(tr, Pin("CAMERA_SHUTTER_PIN", HIGH))
        recovery == Places(tr, Delay("CAMERA_SHUTTER_DELAY", CAMERA_SHUTTER_DELAY))
        on       == Places(tr, Pin("LASER_PIN", HIGH))
        off      == Places(tr, Pin("LASER_PIN", LOW))
        reads    == {i \in 1..Len(tr) : tr[i][1] = "read"}
        shooting == Places(tr, Store("cameraStatus", "CAMERA_SHOOTING"))
        stores   == {i \in 1..Len(tr) : tr[i][1] = "store" /\ tr[i][2] = "cameraStatus"}
    IN  /\ Cardinality(shutter) = n
        /\ Cardinality(recovery) = n
        /\ Cardinality(on) = 1
        /\ Cardinality(off) = 1
        /\ \A i \in on :
            /\ IsEvent(tr, i + 1, Delay("LASER_WARMUP_DELAY", LASER_WARMUP_DELAY))
            /\ \A j \in shutter : i + 1 < j
        /\ \A i \in off :
            /\ \A j \in recovery : j < i
            /\ \A r \in reads : i < r
        /\ reads # {}
        /\ Cardinality(shooting) = 1
        /\ Cardinality(stores) = 2
        /\ \A s \in shooting :
            /\ s + 1 \in shutter
            /\ \A j \in shutter : s < j
        /\ \A e \in stores \ shooting :
            /\ e - 1 \in recovery
            /\ \A j \in recovery : j < e

\* C8 as stated: every cycle of n >= 1 images with the laser in normal mode
\* and the camera presumed on makes n shutter pulses, turns the laser on once
\* before the first pulse and off once after the last and before the
\* sensors, and the camera status is Shooting only during the burst.
C8_BurstCycleAnyLaser == BurstCycle => BurstShape(trace, call.a)

\* C8 for the cycles that start with the laser presumed off: n shutter
\* pulses, the laser on once before the first pulse and off once after the
\* last and before the sensors, the camera status Shooting only during the
\* burst.
C8_BurstCycle == (BurstCycle /\ ~call.laserOn) => BurstShape(trace, call.a)

C8_Witness ==
    /\ BurstCycle
    /\ ~call.laserOn
    /\ call.a = MaxBurst
    /\ Pulses(trace, "CAMERA_SHUTTER_PIN") = MaxBurst
    /\ softwareStatus = "SOFTWARE_RUNNING"

----------------------------------------------------------------------------
(* Claims about the settings file, checked under SpecSaved.                *)

\* C11: whatever SETTINGS.TXT held before, a loadSettings that follows a
\* saveSettings that returned true returns true and the interval, laser mode
\* and burst size that were saved.
C11_SaveLoadRoundTrip ==
    [][(FsDrvLoadSettings /\ call.op = "saveSettings" /\ call.a = 1)
        => (call'.a = 1 /\ settings' = settings)]_vars

----------------------------------------------------------------------------
(* Claims about the switch, checked under SpecSwitches.                    *)

\* C12: isStartStopPressed has returned true at most as often as the steady
\* state of the switch has gone to up, and never twice in a row with no
\* update() in between.
C12_OneReportPerPress ==
    /\ switchPin.returned <= switchPin.presses
    /\ ~switchPin.twice

----------------------------------------------------------------------------
(* Claims about the sensors, checked under SpecSensors.                    *)

\* C15: after a reader was called for a sensor that is not present, every
\* variable that it returns holds 0, the device temperature of getInertia
\* included, whatever it held before.
C15_AbsentSensorReadsZero ==
    /\ (call.op = "Sensors::getInertia" /\ ~IsInertiaSensorPresent(sensors))
        => /\ readings.accel = Zero3
           /\ readings.mag = Zero3
           /\ readings.gyro = Zero3
           /\ readings.deviceTemperature = 0
    /\ (call.op = "Sensors::getWaterPressure" /\ ~IsPressureSensorPresent(sensors))
        => (readings.pressure = 0 /\ readings.depth = 0)
    /\ (call.op = "Sensors::getWaterTemperature" /\ ~IsTemperatureSensorPresent(sensors))
        => readings.waterTemperature = 0

----------------------------------------------------------------------------
(* More claims about the drivers, checked under SpecDrivers.               *)

\* Camera::setPower(onOff, force) has just returned.
SetPowerCalled(onOff, force) ==
    /\ call.op = "Camera::setPower"
    /\ call.a = B2N(onOff)
    /\ call.b = B2N(force)

\* C13 as stated: after setPower(false, true) the camera is physically off
\* and presumed off, whatever it was before.
C13_ForcedOffIsOff ==
    SetPowerCalled(FALSE, TRUE) => (~camRelay /\ ~camPowerStatus)

\* C13 amended: after setPower(false, true) the camera is presumed off, the
\* intensifier is off and the toggle relay has changed position once, so the
\* camera is physically off exactly when it was physically on before.
C13_ForcedOffToggles ==
    SetPowerCalled(FALSE, TRUE)
        => /\ ~camPowerStatus
           /\ ~intensifier
           /\ camRelay = ~call.camRelay

C13_Witness ==
    /\ SetPowerCalled(FALSE, TRUE)
    /\ call.camOn
    /\ ~call.camRelay
    /\ camRelay

\* The power-off action: one pulse of the toggle relay and one of the
\* intensifier's unset relay.
PowerOffAction(tr) ==
    /\ Pulses(tr, "CAMERA_POWER_SET_PIN") = 1
    /\ Pulses(tr, "INTENSIFIER_POWER_UNSET_PIN") = 1

\* C19 as stated: setPower(false, false) performs the power-off action only
\* when the camera is not already presumed on.
C19_OffOnlyIfNotPresumedOn ==
    (SetPowerCalled(FALSE, FALSE) /\ PowerOffAction(trace)) => ~call.camOn

\* C19 amended: setPower(false, false) performs the power-off action when
\* the camera is presumed on, and writes no pin when it is presumed off.
C19_OffOnlyIfPresumedOn ==
    SetPowerCalled(FALSE, FALSE)
        => IF call.camOn THEN PowerOffAction(trace) /\ ~camPowerStatus
                         ELSE PinEvents(trace) = {} /\ ~camPowerStatus

C19_Witness ==
    /\ SetPowerCalled(FALSE, FALSE)
    /\ call.camOn
    /\ PowerOffAction(trace)
    /\ ~camPowerStatus

----------------------------------------------------------------------------
(* Claims about the data logs, checked under SpecLogs.                     *)

HeaderFirst(lines) ==
    /\ lines # <<>>
    /\ lines[1].kind = "header"
    /\ \A j \in 2..Len(lines) : lines[j].kind = "row"

\* C17: every data log on the card starts with its one header line, rows
\* only behind it; the file that newDataLog has just opened holds the header
\* and nothing else, and a data log that is open has its header.
C17_HeaderOnceAndFirst ==
    /\ \A i \in Numbers(sd) : sd.data[i].exists => HeaderFirst(sd.data[i].lines)
    /\ (call.op = "newDataLog" /\ call.a = 1)
        => sd.data[fs.logFile].lines = <<HeaderLine>>
    /\ (call.op = "writeDataLog" /\ call.a = 1)
        => HeaderFirst(sd.data[fs.logFile].lines)

C17_Witness ==
    /\ call.op = "writeDataLog"
    /\ call.a = 1
    /\ IsDataLogOpen(fs)
    /\ sd.data[fs.logFile].lines = <<HeaderLine, RowLine>>
    /\ fs.numberOfDataLogEntries = 1

----------------------------------------------------------------------------
(* The control loop, one call at a time: the serial input, the switch, the *)
(* periodic tasks, and over again. A cycle is three steps: the laser, the  *)
(* burst, and the sensors with the log. pc is the place of the program:    *)
(* "loop" in Commands::handleSerialInput, "switches", "tasks", and inside  *)
(* a cycle the step that comes next.                                       *)

CyclePlaces == {"snap.burst", "snap.log", "tick.burst", "tick.log"}

\* The loop calls one thing after the other, and nothing else runs.
InLoopPreempted(place) == TRUE

\* The place of the program: a call of the loop is made from its place.
InLoop(place) == pc = place

benchIdle == <<switches, switchPin, sensors, readings, probes>>

\* snapAndLog(nImages), steps 1 and 2: laser on, camera status Shooting.
CycleBegin(nImages, reported, from) ==
    LET l1 == IF laserContinuous THEN [l |-> laser, ev |-> <<>>]
                                 ELSE LaserSetPower(laser, TRUE)
    IN  /\ SetLaser(l1.l)
        /\ trace' = l1.ev \o <<Store("cameraStatus", "CAMERA_SHOOTING")>>
        /\ call' = DrvCall("snapAndLog", nImages, reported)
        /\ pc' = IF from = "snap" THEN "snap.burst" ELSE "tick.burst"
        /\ UNCHANGED <<camVars, ctlVars, fs, sd, peripherals, benchIdle>>

\* snapAndLog, steps 3 to 5: the burst, the camera status back, laser off.
CycleBurst ==
    LET l2 == IF laserContinuous THEN [l |-> laser, ev |-> <<>>]
                                 ELSE LaserSetPower(laser, FALSE)
    IN  /\ pc \in {"snap.burst", "tick.burst"}
        /\ SetLaser(l2.l)
        /\ trace' = CameraSnap(cam, Trips(call.a))
                    \o <<Store("cameraStatus", cameraStatus)>>
                    \o l2.ev
        /\ pc' = IF pc = "snap.burst" THEN "snap.log" ELSE "tick.log"
        /\ UNCHANGED <<camVars, call, ctlVars, fs, sd, peripherals, benchIdle>>

\* snapAndLog, steps 6 and 7: the sensors, and during a run the row; then
\* back to the caller.
CycleLog ==
    LET log == softwareStatus = "SOFTWARE_RUNNING"
        r   == WriteDataLog(fs, sd)
        e   == StorageFailure(r.f, r.s, status)
    IN  /\ pc \in {"snap.log", "tick.log"}
        /\ trace' = <<Read("inertia"), Read("pressure"), Read("temperature")>>
                    \o (IF log THEN <<Appended(IF r.ok THEN "row" ELSE "failed")>>
                               ELSE <<>>)
        /\ sd' = IF log THEN r.s ELSE sd
        /\ fs' = IF ~log THEN fs ELSE IF r.ok THEN r.f ELSE e.f
        /\ SetStatus(IF log /\ ~r.ok THEN e.st ELSE status)
        /\ pc' = IF pc = "snap.log" THEN "loop" ELSE "tasks"
        /\ UNCHANGED <<camVars, laserVars, call, cameraStatus, frameInterval,
                       burstSize, laserContinuous, peripherals, benchIdle>>

\* The loop goes from one place to the next.
LoopGoes(from, to) ==
    /\ Booted
    /\ InLoop(from)
    /\ pc' = to
    /\ trace' = <<>>
    /\ call' = NoCall
    /\ UNCHANGED <<camVars, laserVars, ctlVars, fs, sd, peripherals, benchIdle>>

\* Commands::handleSerialInput: a line that is complete is dispatched.
SerialStart     == InLoop("loop") /\ CmdStart
SerialStop      == InLoop("loop") /\ CmdStop
SerialCamera    == InLoop("loop") /\ CmdCamera
SerialLasermode == InLoop("loop") /\ CmdLasermode

\* snap without a number: refused, or a cycle of burstSize images begins.
SerialSnap ==
    /\ InLoop("loop")
    /\ Booted
    /\ IF SnapRefusal = ""
       THEN CycleBegin(burstSize, burstSize, "snap")
       ELSE /\ Refused(SnapRefusal)
            /\ call' = NoCall
            /\ UNCHANGED <<camVars, cameraStatus, frameInterval, burstSize,
                           laserContinuous, peripherals, auxVars>>

SerialDone == LoopGoes("loop", "switches")

\* The switch: a press that isStartStopPressed reports starts or stops.
SwitchesPressed == InLoop("switches") /\ SwitchPressed
SwitchesDone    == LoopGoes("switches", "tasks")

\* The periodic tasks: the tick of a run that is due begins a cycle.
TasksTick ==
    /\ InLoop("tasks")
    /\ softwareStatus = "SOFTWARE_RUNNING"
    /\ fs.numberOfDataLogEntries < MaxEntries
    /\ CycleBegin(burstSize, 0, "tick")

TasksDone == LoopGoes("tasks", "loop")

NextLoop ==
    \/ Setup
    \/ SerialStart
    \/ SerialStop
    \/ SerialCamera
    \/ SerialLasermode
    \/ SerialSnap
    \/ SerialDone
    \/ SwitchesPressed
    \/ SwitchesDone
    \/ TasksTick
    \/ TasksDone
    \/ CycleBurst
    \/ CycleLog
    \/ CardRemoved
    \/ CardInserted

SpecLoop == InitCycle /\ [][NextLoop]_vars

----------------------------------------------------------------------------
(* More claims about one cycle, checked under SpecCycle.                   *)

\* C16: snap N with the camera presumed on trips the shutter once when the
\* typed N is at most 1 and N times when it is more, and the number in the
\* message is the number of trips.
C16_SnapCount ==
    [][\A n \in TypedImages :
        (Snap({Num(n)}) /\ call'.op = "snapAndLog" /\ call'.camOn)
            => /\ Pulses(trace', "CAMERA_SHUTTER_PIN") = (IF n <= 1 THEN 1 ELSE n)
               /\ call'.b = Pulses(trace', "CAMERA_SHUTTER_PIN")]_vars

----------------------------------------------------------------------------
(* A claim about start and stop, checked under Spec.                       *)

\* C28: start while the software status is Running, and stop while it is
\* not, only print a message: the file system with its open log and entry
\* counter, the card with its files, the statuses, the settings and the
\* drivers are as before.
C28_StartStopRefusedChangeNothing ==
    [][((CmdStart /\ softwareStatus = "SOFTWARE_RUNNING")
        \/ (CmdStop /\ softwareStatus # "SOFTWARE_RUNNING"))
        => /\ UNCHANGED <<camVars, laserVars, ctlVars, fsVars>>
           /\ Len(trace') = 1
           /\ trace'[1][1] = "serial"]_vars

C28_Witness ==
    /\ trace = <<Said("Device is already started and capturing images.")>>
    /\ softwareStatus = "SOFTWARE_RUNNING"
    /\ IsDataLogOpen(fs)
    /\ fs.numberOfDataLogEntries = 1

----------------------------------------------------------------------------
(* A claim about the format command, checked under SpecErase.              *)

\* The line starts with y or Y.
StartsWithY(answer) == answer # <<>> /\ Head(answer) \in {"y", "Y"}

\* C29: the format command calls FileSystem::format only when the software
\* status is not Running and the line typed as confirmation starts with y
\* or Y, and then reset() runs right after it; otherwise the card and the
\* file system are left as they are.
C29_FormatOnlyConfirmedAndIdle ==
    [][\A answer \in FormatAnswers :
        FormatCommand({answer})
            => IF call'.op = "FileSystem::format"
               THEN /\ softwareStatus # "SOFTWARE_RUNNING"
                    /\ StartsWithY(answer)
                    /\ Reset(Format(fs, sd, TRUE).f, Format(fs, sd, TRUE).s)
               ELSE /\ softwareStatus = "SOFTWARE_RUNNING" \/ ~StartsWithY(answer)
                    /\ UNCHANGED <<fs, sd, camVars, laserVars, ctlVars>>]_vars

C29_Witness ==
    /\ call.op = "FileSystem::format"
    /\ call.a = 1
    /\ PinEvents(trace) # {}
    /\ softwareStatus = "SOFTWARE_READY"
    /\ ~IsDataLogOpen(fs)

----------------------------------------------------------------------------
(* A claim about the laser during a run, checked under Spec.               *)

\* The laser is on at place i of the trace of a call: by the last write to
\* LASER_PIN before i, or as it was when the call was made.
LaserOnAt(tr, i) ==
    LET writes == {j \in 1..(i - 1) : tr[j][1] = "pin" /\ tr[j][2] = "LASER_PIN"}
        last   == CHOOSE j \in writes : \A k \in writes : k <= j
    IN  IF writes = {} THEN call.laserOn ELSE tr[last][3] = HIGH

\* C20: in a cycle of a run, in both laser modes, every pulse of the shutter
\* occurs while the laser is on.
C20_ShutterOnlyWithLaser ==
    CycleLogged("row") \/ CycleLogged("failed")
        => \A i \in Places(trace, Pin("CAMERA_SHUTTER_PIN", HIGH)) : LaserOnAt(trace, i)

----------------------------------------------------------------------------
(* Claims about the control loop, checked under SpecLoop.                  *)

\* A command of the serial input is dispatched.
Dispatched ==
    \/ CmdStart \/ CmdStop \/ CmdCamera \/ CmdLasermode
    \/ Booted /\ SnapRefusal # "" /\ Refused(SnapRefusal)

\* A cycle begins.
CycleBegins ==
    \E n \in 0..255, from \in {"snap", "tick"} : CycleBegin(n, call'.b, from)

\* The program is inside a cycle.
InCycle == pc \in CyclePlaces

\* C18: from the start of a cycle to the end of its log write no command of
\* the serial input is dispatched, no press of the switch is consumed and
\* no other cycle starts.
C18_CycleIsAtomic ==
    [][InCycle
        => (~(Dispatched \/ SwitchPressed \/ CycleBegins)
            /\ (CycleBurst \/ CycleLog \/ CardRemoved \/ CardInserted))]_vars

C18_Witness ==
    /\ pc = "tick.log"
    /\ call.op = "snapAndLog"
    /\ Pulses(trace, "CAMERA_SHUTTER_PIN") >= 1
    /\ ~sd.present

----------------------------------------------------------------------------
(* More claims about the drivers, checked under SpecDrivers.               *)

\* C25: Camera::snap(n) with the camera presumed off writes to no pin, waits
\* for nothing and changes no state, for every n.
C25_SnapWhilePresumedOff ==
    [][(DrvCameraSnap /\ ~camPowerStatus)
        => /\ trace' = <<>>
           /\ UNCHANGED <<camVars, laserVars, ctlVars, fsVars>>]_vars

C25_Witness ==
    /\ call.op = "Camera::snap"
    /\ call.a = 255
    /\ ~call.camOn
    /\ call.camRelay
    /\ trace = <<>>

\* The warm-up of the camera as an event.
Warmup == Delay("CAMERA_POWERUP_DELAY", CAMERA_POWERUP_DELAY)

\* C26: a call of Camera::setPower that turns the camera on waits for
\* CAMERA_POWERUP_DELAY once, after every pin write and before the presumed
\* state is stored as on, which is the last thing it does; a call that turns
\* the camera off and a call that does nothing do not wait for it.
C26_WarmupBeforePresumedOn ==
    call.op = "Camera::setPower"
        => IF call.a = 1 /\ (call.b = 1 \/ ~call.camOn)
           THEN /\ Cardinality(Places(trace, Warmup)) = 1
                /\ \A d \in Places(trace, Warmup) :
                    /\ \A i \in PinEvents(trace) : i < d
                    /\ Places(trace, Store("Camera::powerStatus", 1)) = {d + 1}
                    /\ Len(trace) = d + 1
                /\ Pulses(trace, "CAMERA_POWER_SET_PIN") = 1
                /\ camPowerStatus
           ELSE Places(trace, Warmup) = {}

C26_Witness ==
    /\ call.op = "Camera::setPower"
    /\ call.a = 1
    /\ ~call.camOn
    /\ camPowerStatus
    /\ Places(trace, Warmup) # {}

\* The writes to LASER_PIN in a trace.
LaserWrites(tr) == {i \in PinEvents(tr) : tr[i][2] = "LASER_PIN"}

\* C27: after Laser::testCycle, called by hand or by Laser::init, the laser
\* is off: LASER_PIN is LOW by the last write of the call and the presumed
\* state is off, whatever the laser was before.
C27_TestCycleEndsOff ==
    call.op \in {"Laser::testCycle", "Laser::init"}
        => /\ laserPin = LOW
           /\ ~laserPowerStatus
           /\ LaserWrites(trace) # {}
           /\ \A i \in LaserWrites(trace) :
                (\A j \in LaserWrites(trace) : j <= i) => trace[i][3] = LOW

C27_Witness ==
    /\ call.op = "Laser::testCycle"
    /\ call.laserOn
    /\ laserPin = LOW
    /\ ~laserPowerStatus

----------------------------------------------------------------------------
(* More claims about FileSystem called directly, checked under SpecLogs.   *)

\* The rows and headers of every data log of a card.
LogLines(s) == [n \in DOMAIN s.data |-> s.data[n].lines]

\* writeDataLog is called on an open log and its write or sync fails.
WriteFails == FsDrvWriteDataLog /\ IsDataLogOpen(fs) /\ ~WriteSucceeds(sd)

\* C21: a writeDataLog whose write or sync fails returns false, closes the
\* log, resets the entry counter and sets the local error code to NOCARD
\* when the card has no sectors and to CARD_FULL otherwise; with the log
\* closed writeDataLog returns false and appends nothing, and only a
\* newDataLog that returns true opens a log again.
C21_WriteFailureClosesLog ==
    [][/\ WriteFails
          => /\ call'.a = 0
             /\ ~IsDataLogOpen(fs')
             /\ fs'.numberOfDataLogEntries = 0
             /\ fs'.localErrorCode = (IF sd.present THEN "FS_ERROR_CARD_FULL"
                                                    ELSE "FS_ERROR_NOCARD")
             /\ LogLines(sd') = LogLines(sd)
       /\ (FsDrvWriteDataLog /\ ~IsDataLogOpen(fs))
          => (call'.a = 0 /\ LogLines(sd') = LogLines(sd) /\ ~IsDataLogOpen(fs'))
       /\ (~IsDataLogOpen(fs) /\ IsDataLogOpen(fs'))
          => (FsDrvNewDataLog /\ call'.a = 1)]_vars

C21_Witness ==
    /\ call.op = "writeDataLog"
    /\ call.a = 0
    /\ sd.present /\ sd.full
    /\ fs.localErrorCode = "FS_ERROR_CARD_FULL"
    /\ \E n \in DOMAIN sd.data : Len(sd.data[n].lines) >= 2

----------------------------------------------------------------------------
(* Claims about FileSystem::format, checked under SpecFormat.              *)

\* The messages that a call appended to a status log that it did not erase.
AppendedStatus ==
    SubSeq(sd'.status.lines, Len(sd.status.lines) + 1, Len(sd'.status.lines))

\* A message is among the messages of a sequence.
Holds(lines, message) == \E i \in 1..Len(lines) : lines[i] = message

\* C22: format() returns true only if sd.format succeeded; when sd.format
\* failed it returns false and does not append 'SD card formatted'.
C22_FormatReturnsOutcome ==
    [][FsDrvFormat
        => /\ (call'.a = 1 => call'.b = 1)
           /\ (call'.b = 0 => ~Holds(AppendedStatus, "SD card formatted"))]_vars

\* C23: after format() no data log is open.
C23_FormatClosesLog ==
    [][FsDrvFormat => ~IsDataLogOpen(fs')]_vars

\* C24: when sd.format fails on a card that is in the slot and was
\* initialized, the call appends 'SD card format' and after it 'SD card
\* format failed' to the status log.
C24_FailedFormatIsLogged ==
    [][(FsDrvFormat /\ fs.initialized /\ sd.present /\ call'.b = 0)
        => \E i, j \in 1..Len(AppendedStatus) :
            /\ i < j
            /\ AppendedStatus[i] = "SD card format"
            /\ AppendedStatus[j] = "SD card format failed"]_vars

----------------------------------------------------------------------------
(* A claim about FileSystem::loadSettings, checked under SpecLoad.         *)

\* The lines of a text: cut at every line feed, the carriage returns
\* dropped.
RECURSIVE TextLines(_, _)
TextLines(line, bytes) ==
    IF bytes = <<>> THEN (IF line = <<>> THEN <<>> ELSE <<line>>)
    ELSE IF Head(bytes) = "\r" THEN TextLines(line, Tail(bytes))
    ELSE IF Head(bytes) = "\n" THEN <<line>> \o TextLines(<<>>, Tail(bytes))
    ELSE TextLines(line \o <<Head(bytes)>>, Tail(bytes))

\* The value of the last well-formed line with this name, <<>> without one.
LastValue(lines, name) ==
    LET good == {i \in 1..Len(lines) :
                    ParseLine(lines[i]).name = name /\ ParseLine(lines[i]).value # <<>>}
    IN  IF good = {} THEN <<>>
        ELSE ParseLine(lines[CHOOSE i \in good : \A j \in good : j <= i]).value

\* What the three variables hold after every well-formed line is applied.
Applied(bytes, v) ==
    LET lines == TextLines(<<>>, bytes)
        i == LastValue(lines, IntervalName)
        b == LastValue(lines, BurstsizeName)
        c == LastValue(lines, LasercontinuousName)
    IN  Settings(IF i = <<>> THEN v.interval ELSE U32(AtoiText(i)),
                 IF c = <<>> THEN v.isLaserContinuous ELSE AtoiText(c) = 1,
                 IF b = <<>> THEN v.burstSize ELSE U8(AtoiText(b)))

\* C30: loadSettings that returns true has applied every well-formed line
\* named interval, burstsize or lasercontinuous, the last one of a name
\* winning, and has left the variable of a name that does not occur as it
\* was; lines that are empty, without a value or with another name do not
\* keep later lines from being applied.
C30_LoadAppliesEveryLine ==
    [][\A v \in StaleSettings :
        (LoadInto({v}) /\ call'.a = 1)
            => settings' = Applied(sd.settings.bytes, v)]_vars

----------------------------------------------------------------------------
(* Claims about what a failed call leaves behind, checked under SpecLogs.  *)

\* The names of the data logs that exist on a card.
LogNames(s) == {n \in DOMAIN s.data : s.data[n].exists}

\* C31: a newDataLog that returns false leaves no data log open and no file
\* on the card that was not there before the call.
C31_FailedNewDataLogLeavesNothing ==
    [][(FsDrvNewDataLog /\ call'.a = 0)
          => (~IsDataLogOpen(fs') /\ LogNames(sd') \subseteq LogNames(sd))]_vars

\* C32: whenever no data log is open the number of data log entries is 0.
C32_NoLogNoEntries == ~IsDataLogOpen(fs) => fs.numberOfDataLogEntries = 0

C32_Witness ==
    /\ call.op = "writeDataLog"
    /\ call.a = 0
    /\ call.b > 0
    /\ ~IsDataLogOpen(fs)
    /\ fs.numberOfDataLogEntries = 0

----------------------------------------------------------------------------
(* Claims about the debounce window, checked under SpecSwitches.           *)

\* Every reading that update() got less than SWITCH_DEBOUNCE_PERIOD ago,
\* the one of this call included, was v.
Settled(v) == switchPin'.seen[1] \cup switchPin'.seen[2] = {v}

\* update() changes the steady state only to a reading that has settled.
SteadyOnlySettled ==
    (SwUpdate /\ switches'.lastSteadyState # switches.lastSteadyState)
        => Settled(switches'.lastSteadyState)

\* update() counts a press only when the steady state changes to a reading
\* that has settled.
PressOnlySettled ==
    (SwUpdate /\ switches'.count # switches.count)
        => /\ switches'.lastSteadyState # switches.lastSteadyState
           /\ Settled(switches'.lastSteadyState)

\* C33: update() changes the steady state to v only when every reading it
\* got during the debounce period before was v, and a level change that
\* reverts within the period neither changes the steady state nor adds a
\* press.
C33_DebounceWindow == [][SteadyOnlySettled /\ PressOnlySettled]_vars

----------------------------------------------------------------------------
(* Claims about the presumed and the physical state of the camera, checked *)
(* under SpecDrivers.                                                      *)

\* The presumed power state is the state of the camera's toggle relay.
CameraInSync == camPowerStatus = camRelay

\* A step that is neither a forced setPower, nor Camera::init, nor a press
\* of the camera's own button.
Unforced ==
    /\ ~(DrvCameraSetPower /\ call'.b = 1)
    /\ ~DrvCameraInit
    /\ ~DrvManualToggle

\* C34: when the presumed power state equals the state of the toggle relay,
\* it still does after a setPower that is not forced, and after every other
\* call of the drivers that is not Camera::init.
C34_UnforcedKeepsInSync ==
    [][(CameraInSync /\ Unforced) => CameraInSync']_vars

\* A camera that was on and in step is switched off by a call without force.
C34_Witness ==
    /\ call.op = "Camera::setPower"
    /\ call.a = 0
    /\ call.b = 0
    /\ call.camOn /\ call.camRelay
    /\ ~camPowerStatus /\ ~camRelay

\* The intensifier's relay is in the presumed power state.
IntensifierFollows == intensifier = camPowerStatus

\* C35: Camera::init leaves the intensifier's relay in the presumed power
\* state, and every setPower after it, forced or not, keeps it there.
C35_IntensifierFollowsPresumed ==
    [][/\ DrvCameraInit => IntensifierFollows'
       /\ IntensifierFollows => IntensifierFollows']_vars

\* A forced power-on of a camera presumed on leaves the intensifier on.
C35_Witness ==
    /\ call.op = "Camera::setPower"
    /\ call.a = 1
    /\ call.b = 1
    /\ call.camOn
    /\ intensifier /\ camPowerStatus

----------------------------------------------------------------------------
(* Claims about the data log and the run, checked under Spec.              *)

\* C36: whenever the software status is not Running no data log is open.
C36_LogOpenOnlyWhileRunning ==
    softwareStatus # "SOFTWARE_RUNNING" => ~IsDataLogOpen(fs)

----------------------------------------------------------------------------
(* The calls of FileSystem that write, on one card, and the claim about    *)
(* the error codes of the ones that fail.                                  *)

FsDrvWritersInit == FsDrvBoot({EmptyCard(TRUE)})

\* saveSettings with the settings that the caller holds.
FsDrvSaveHeld == SaveFrom({settings})

FsDrvWritersNext ==
    \/ FsDrvFsInit
    \/ FsDrvNewDataLog
    \/ FsDrvWriteDataLog
    \/ FsDrvCloseDataLog
    \/ FsDrvSaveHeld
    \/ CardRemoved
    \/ CardInserted
    \/ CardFull

SpecWriters == FsDrvWritersInit /\ [][FsDrvWritersNext]_vars

\* newDataLog, writeDataLog or saveSettings is called.
WriterCalled == FsDrvNewDataLog \/ FsDrvWriteDataLog \/ FsDrvSaveHeld

\* C37: after a newDataLog, writeDataLog or saveSettings that returned false
\* hasError() is true.
C37_FailureHasErrorCode ==
    [][(WriterCalled /\ call'.a = 0) => HasError(fs')]_vars

----------------------------------------------------------------------------
(* Clock::init and Battery::init called directly, while devices are wired  *)
(* and unwired, and the claim about their presence flags.                  *)

PrInit ==
    /\ Bench
    /\ SwitchesIdle
    /\ SensorsIdle
    /\ probes \in {ProbesAt(found) : found \in SUBSET ProbedDevices}

\* One call of an init: the flags after it, what it returned, and as a
\* number the set of devices that answered.
PrCalled(op, r) ==
    /\ probes' = r.p
    /\ call' = DrvCall(op, B2N(r.ok), Cardinality(probes.found))

PrClockInit ==
    /\ PrCalled("Clock::init", ClockInit(probes))
    /\ UNCHANGED <<camVars, laserVars, ctlVars, fs, sd, peripherals, trace,
                   switches, switchPin, sensors, readings, pc>>

PrBatteryInit ==
    /\ PrCalled("Battery::init", BatteryInit(probes))
    /\ UNCHANGED <<camVars, laserVars, ctlVars, fs, sd, peripherals, trace,
                   switches, switchPin, sensors, readings, pc>>

\* A device comes loose, or is plugged in again.
PrWiring ==
    /\ \E d \in ProbedDevices :
        probes' = [probes EXCEPT !.found = IF d \in @ THEN @ \ {d} ELSE @ \cup {d}]
    /\ call' = NoCall
    /\ UNCHANGED <<camVars, laserVars, ctlVars, fs, sd, peripherals, trace,
                   switches, switchPin, sensors, readings, pc>>

PrNext ==
    \/ PrClockInit
    \/ PrBatteryInit
    \/ PrWiring

SpecProbes == PrInit /\ [][PrNext]_vars

\* C38: after Clock::init the clock is reported present exactly when it
\* answered this call's probe, and the call returned that; after
\* Battery::init each battery monitor is reported present exactly when it
\* answered this call's probe, and the call returned whether both did.
C38_InitReflectsProbe ==
    /\ call.op = "Clock::init"
          => /\ IsClockPresent(probes) = ("clock" \in probes.found)
             /\ call.a = B2N("clock" \in probes.found)
    /\ call.op = "Battery::init"
          => /\ IsMainPresent(probes) = ("main" \in probes.found)
             /\ IsControllerPresent(probes) = ("controller" \in probes.found)
             /\ call.a = B2N({"main", "controller"} \subseteq probes.found)

============================================================================
